---- MODULE Spec2Model ----
(***************************************************************************)
(* Deck-generation pipelines and web application of the AI-Consultant      *)
(* repository:                                                             *)
(*   - FullyDynamicMcKinseyGenerator.generate_fully_dynamic_deck           *)
(*     (src/fully_dynamic_deck_generator.py)                               *)
(*   - McKinseyDeckGenerator.generate_comprehensive_deck                   *)
(*     (src/advanced_deck_generator.py)                                    *)
(*   - DeckOrchestrator.generate_deck                                      *)
(*     (src/consulting_deck_generator/core/orchestrator.py)                *)
(*                                                                         *)
(* A JSON object (Python dict) is a function from key strings to values;   *)
(* a missing key is a key outside the DOMAIN.  A list is a sequence.       *)
(* The text-generation and search services are the environment: each call  *)
(* draws its outcome from a small set of responses.                        *)
(***************************************************************************)
EXTENDS Integers, Sequences, FiniteSets, TLC

VARIABLES
    gen,        \* entry point of this run: "dynamic", "advanced", "orchestrator"
    pc,         \* position of the run inside the entry point
    down,       \* the services that are down for the whole run: every call to them fails
    budget,     \* number of off-nominal service outcomes the environment may still inject
    analysis,   \* problem_analysis (dict)
    structure,  \* deck_structure / blueprint_raw (dict)
    idx,        \* index of the loop in progress (0-based, as in the source)
    queries,    \* search_queries
    searched,   \* queries handed to the search capability, in call order
    results,    \* all_results: the queries whose search returned
    sources,    \* primary_sources
    market,     \* market_data returned by the research step
    data,       \* data_slides (orchestrator); the data of create_dynamic_bar_chart
    content,    \* content_slides
    charts,     \* chart_package
    slides,     \* prs.slides: the rendered sections
    error,      \* the exception that left the entry point, "" when none
    \* the web application (src/app.py, src/models.py)
    users,          \* the User table: id -> row
    requests,       \* /consult requests in flight: the User object each one loaded
    consultations,  \* the Consultation table: id -> row
    notes,          \* the ConsultationNote table
    shared,         \* the SharedConsultation table
    decks,          \* the DeckGeneration table
    exports,        \* the ExportHistory table
    now,            \* datetime.utcnow(), in days
    response        \* the response to the last request served

\* the state of the deck-generation pipelines and the state of the web application
pipelineVars == <<gen, pc, down, budget, analysis, structure, idx, queries, searched,
                  results, sources, market, data, content, charts, slides, error>>
appVars == <<users, requests, consultations, notes, shared, decks, exports, now, response>>
vars == <<pipelineVars, appVars>>

\* no web request is being served: the pipelines are run on their own
AppIdle ==
    /\ users = <<>>
    /\ requests = <<>>
    /\ consultations = <<>>
    /\ notes = <<>>
    /\ shared = <<>>
    /\ decks = <<>>
    /\ exports = <<>>
    /\ now = 0
    /\ response = <<>>

-----------------------------------------------------------------------------
(* Bounds of the model *)

\* off-nominal service outcomes injected in one run of a whole pipeline
MaxFaults == 1
\* longest blueprint a generation call returns
MaxGenSlides == 3
\* longest list of research focus areas a generation call returns
MaxAreas == 5

-----------------------------------------------------------------------------
(* Python helpers *)

Min(a, b) == IF a < b THEN a ELSE b
Max(a, b) == IF a > b THEN a ELSE b

\* dict.get(key, default)
Get(d, k, default) == IF k \in DOMAIN d THEN d[k] ELSE default
\* dict.get(key): the key is present (the value is not None)
Has(d, k) == k \in DOMAIN d

EmptyDict == <<>>

\* s[a:b] for 0 <= a, 0 <= b (0-based, end exclusive)
Slice(s, a, b) == SubSeq(s, a + 1, Min(b, Len(s)))
\* s[:n]
Take(s, n) == SubSeq(s, 1, Min(n, Len(s)))

\* str.find(tok): 0-based index of the first occurrence, -1 when absent
Find(s, tok) ==
    IF \E i \in 1..Len(s) : s[i] = tok
    THEN (CHOOSE i \in 1..Len(s) : s[i] = tok /\ \A j \in 1..(i - 1) : s[j] # tok) - 1
    ELSE -1
\* str.rfind(tok): 0-based index of the last occurrence, -1 when absent
RFind(s, tok) ==
    IF \E i \in 1..Len(s) : s[i] = tok
    THEN (CHOOSE i \in 1..Len(s) : s[i] = tok /\ \A j \in (i + 1)..Len(s) : s[j] # tok) - 1
    ELSE -1

-----------------------------------------------------------------------------
(* The text-generation service and the JSON extraction                     *)
(*                                                                         *)
(* A response text is a sequence of tokens: "{" and "}" are the braces,    *)
(* "k" is a well-formed list of members, "v" a well-formed JSON value that *)
(* is not an object and holds no brace (a number, a string, an array of    *)
(* numbers), "t" is prose with no brace.  obj is the dict the members "k"  *)
(* denote.                                                                 *)

Reply(t, d) == [raises |-> FALSE, text |-> t, obj |-> d]
\* generate_content raised (network, quota)
ServiceError == [raises |-> TRUE, text |-> <<>>, obj |-> EmptyDict]

\* json.loads(s): ok is FALSE for a JSONDecodeError
json_loads(s, d) ==
    IF s = <<"{", "k", "}">> THEN [ok |-> TRUE, isdict |-> TRUE, val |-> d]
    ELSE IF s = <<"{", "}">> THEN [ok |-> TRUE, isdict |-> TRUE, val |-> EmptyDict]
    ELSE IF s = <<"v">> THEN [ok |-> TRUE, isdict |-> FALSE, val |-> EmptyDict]
    ELSE [ok |-> FALSE, isdict |-> FALSE, val |-> EmptyDict]

\* json_start = text.find('{'); json_end = text.rfind('}') + 1;
\* if json_start != -1 and json_end != -1: json.loads(text[json_start:json_end])
\* else: raise ValueError.  ok is FALSE when the block raises.
ExtractJson(r) ==
    LET json_start == Find(r.text, "{")
        json_end == RFind(r.text, "}") + 1
    IN  IF r.raises THEN [ok |-> FALSE, isdict |-> FALSE, val |-> EmptyDict]
        ELSE IF json_start # -1 /\ json_end # -1
             THEN json_loads(Slice(r.text, json_start, json_end), r.obj)
             ELSE [ok |-> FALSE, isdict |-> FALSE, val |-> EmptyDict]

\* texts holding a parseable object
GoodTexts == { <<"{", "k", "}">>, <<"t", "{", "k", "}", "t">> }
\* texts that do not: prose only, no closing brace, no opening brace, braces
\* in the wrong order, two objects, prose between the braces
BadTexts == { <<"t">>, <<"{", "k">>, <<"k", "}">>, <<"}", "t", "{">>,
              <<"{", "k", "}", "t", "{", "k", "}">>, <<"{", "t", "}">> }

\* the responses of one generation call that is asked for one of the dicts
Responses(dicts) ==
    {ServiceError}
      \cup {Reply(t, EmptyDict) : t \in BadTexts \cup {<<"{", "}">>}}
      \cup {Reply(t, d) : t \in GoodTexts, d \in dicts}

\* a JSON scalar where the code expects a number: a number n, or anything else
Num(n) == [isnum |-> TRUE, n |-> n]
NotNum == [isnum |-> FALSE, n |-> 0]

\* the environment spends one unit of budget on every outcome but the nominal one
Cost(r, nominal) == IF r = nominal THEN 0 ELSE 1

\* one call to a service: a service that is down fails, one that is up answers
\* nominally or, while the budget lasts, with any other outcome r
Call(service, r, nominal, failure) ==
    /\ service \in down => r = failure
    /\ service \notin down => Cost(r, nominal) <= budget
    /\ budget' = IF service \in down THEN budget ELSE budget - Cost(r, nominal)

Services == {"llm", "search"}

-----------------------------------------------------------------------------
(* DynamicDeckAnalyzer (src/fully_dynamic_deck_generator.py)               *)

\* the fallback classification of analyze_problem_complexity
FallbackAnalysis ==
    [problem_type |-> "growth_strategy", complexity_score |-> Num(5),
     stakeholder_complexity |-> "medium", recommended_slide_count |-> 10]

MkAnalysis(ptype, c, n) ==
    [problem_type |-> ptype, complexity_score |-> c,
     stakeholder_complexity |-> "high", recommended_slide_count |-> n]

\* what a well-behaved service answers
NominalAnalysis == MkAnalysis("market_entry", Num(7), 12)

\* the classifications the service may return: any score, any count, keys missing
AnalysisDicts ==
    {MkAnalysis("market_entry", c, n) :
        c \in {Num(-8), Num(-7), Num(-6), Num(-3), Num(1), Num(7), Num(10), Num(14), NotNum},
        n \in {3, 12, 25}}
      \cup {[problem_type |-> "cost_optimization"]}

AnalysisResponses == Responses(AnalysisDicts)

\* analyze_problem_complexity without its except branch: nothing stands in for
\* a reply that cannot be parsed
analyze_problem_complexity_noexcept(r) == ExtractJson(r).val

\* analyze_problem_complexity: the parsed dict, or the fallback when the try block raises
analyze_problem_complexity(r) ==
    LET parsed == ExtractJson(r)
    IN  IF parsed.ok THEN parsed.val ELSE FallbackAnalysis

MkEntry(n, purpose, visual, msg) ==
    [slide_number |-> n, purpose |-> purpose, visual_type |-> visual,
     content_type |-> purpose, key_message |-> msg]

core_slides ==
    << MkEntry(1, "executive_summary", "title_only",
               <<"Clear articulation of market potential", 0>>),
       MkEntry(2, "hypothesis", "framework", <<"Testable strategic premise", 0>>) >>

\* the additional slides numbered with the loop index i instead of i + 1
additional_slides_unshifted(slide_count) ==
    [j \in 1..Max(0, Min(slide_count, 10) - 2) |->
        MkEntry(j + 1, "analysis", "bar_chart", <<"Key insight for component", j + 1>>)]

\* for i in range(2, min(slide_count, 10)): slide_number i + 1
additional_slides(slide_count) ==
    [j \in 1..Max(0, Min(slide_count, 10) - 2) |->
        MkEntry(j + 2, "analysis", "bar_chart", <<"Key insight for component", j + 1>>)]

\* core_slides + additional_slides[:max(0, slide_count - len(core_slides))]
_generate_fallback_blueprint(slide_count) ==
    core_slides \o Take(additional_slides(slide_count),
                        Max(0, slide_count - Len(core_slides)))

\* a focus area is its text and, for the areas a generation call lists, its rank
FallbackFocusAreas ==
    << <<"Market analysis", 0>>, <<"Competitive landscape", 0>>,
       <<"Financial implications", 0>> >>

\* the structure_data built in the except branch of generate_dynamic_structure
FallbackStructure(an) ==
    LET complexity == Get(an, "complexity_score", Num(5)).n
        slide_count == Min(8 + complexity, 20)
    IN  [problem_type |-> Get(an, "problem_type", "growth_strategy"),
         problem_complexity |-> IF complexity < 6 THEN "moderate"
                                ELSE IF complexity < 8 THEN "complex"
                                ELSE "highly_complex",
         total_slides |-> slide_count,
         slide_blueprint |-> _generate_fallback_blueprint(slide_count),
         research_focus_areas |-> FallbackFocusAreas]

\* blueprints a generation call may return: any length up to MaxGenSlides, any
\* slide numbers (out of order, repeated, with gaps, not starting at 1)
GenEntry(n) == MkEntry(n, "analysis", "bar_chart", <<"generated", n>>)
GenBlueprints ==
    UNION { [1..len -> {GenEntry(n) : n \in 1..(MaxGenSlides + 1)}] : len \in 0..MaxGenSlides }
\* focus-area lists a generation call may return
GenArea(i) == <<"area", i>>
GenAreas == { [j \in 1..len |-> GenArea(j)] : len \in 0..MaxAreas }

MkStructure(an, bp, areas) ==
    [problem_type |-> Get(an, "problem_type", "growth_strategy"),
     problem_complexity |-> "moderate",
     total_slides |-> Get(an, "recommended_slide_count", 10),
     slide_blueprint |-> bp, research_focus_areas |-> areas]

Drop(d, k) == [x \in DOMAIN d \ {k} |-> d[x]]

NominalBlueprint == [j \in 1..MaxGenSlides |-> GenEntry(j)]
NominalAreas == [j \in 1..2 |-> GenArea(j)]
NominalStructure(an) == MkStructure(an, NominalBlueprint, NominalAreas)

\* the structures the service may return for an analysis, keys missing included
StructureDicts(an) ==
    {MkStructure(an, bp, areas) : bp \in GenBlueprints, areas \in GenAreas}
      \cup {Drop(MkStructure(an, NominalBlueprint, areas), "slide_blueprint") : areas \in GenAreas}
      \cup {Drop(MkStructure(an, bp, NominalAreas), "research_focus_areas") : bp \in GenBlueprints}

\* generate_dynamic_structure: raises is TRUE when the except branch itself
\* raises (8 + complexity with a complexity that is no number)
generate_dynamic_structure(an, r) ==
    LET parsed == ExtractJson(r)
    IN  IF parsed.ok THEN [raises |-> FALSE, val |-> parsed.val]
        ELSE IF ~Get(an, "complexity_score", Num(5)).isnum
             THEN [raises |-> TRUE, val |-> EmptyDict]
             ELSE [raises |-> FALSE, val |-> FallbackStructure(an)]

-----------------------------------------------------------------------------
(* The research step: _conduct_dynamic_research                            *)
(* (src/fully_dynamic_deck_generator.py) and                               *)
(* AdvancedResearchEngine.conduct_comprehensive_research                   *)
(* (src/advanced_deck_generator.py)                                        *)

\* search_queries = search_queries[:12]
QueryCap == 12
\* area_queries[:3]
PerAreaCap == 3
\* queries[:8] in _generate_research_queries
AdvQueryCap == 8
\* primary_sources[:15] and primary_sources[:10]
DynSourceCap == 15
AdvSourceCap == 10

\* most query lines one prose response holds
MaxLines == 4

\* a prose response: generate_content raised, or a text of so many non-empty lines
Prose(n) == [raises |-> FALSE, lines |-> n]
ProseError == [raises |-> TRUE, lines |-> 0]
ProseResponses == {ProseError} \cup {Prose(n) : n \in 0..MaxLines}
AdvProseResponses == {ProseError} \cup {Prose(n) : n \in {0, 1, AdvQueryCap, AdvQueryCap + 2}}

\* the j-th query line written for an area; n = 0 is the fallback query
\* f"{problem} {area} analysis 2024"
Query(area, j) == [area |-> area, n |-> j]

\* the queries one focus area adds to search_queries
area_queries(area, r) ==
    IF r.raises THEN <<Query(area, 0)>>
    ELSE Take([j \in 1..r.lines |-> Query(area, j)], PerAreaCap)

\* the cap forgotten
CapQueries_none(qs) == qs
\* search_queries[:12]
CapQueries(qs) == Take(qs, QueryCap)

\* _generate_research_queries: queries[:8], or the eight fallback queries
_generate_research_queries(r) ==
    IF r.raises THEN [j \in 1..8 |-> Query(<<"fallback", 0>>, j)]
    ELSE Take([j \in 1..r.lines |-> Query(<<"problem", 0>>, j)], AdvQueryCap)

\* one search call: it raised, or it returned the relevance scores of its results
Found(scores) == [raises |-> FALSE, scores |-> scores]
SearchError == [raises |-> TRUE, scores |-> <<>>]
NominalSearch == Found(<<5, 9>>)
SearchOutcomes == {SearchError, Found(<<>>), Found(<<7>>), NominalSearch}

\* primary_sources.extend([... for item in result.get('results', [])])
extend_sources(srcs, query, r) ==
    srcs \o [j \in 1..Len(r.scores) |-> [score |-> r.scores[j], query_used |-> query]]

\* a failed search ends the loop
next_query_abort(qs, i, r) == IF r.raises THEN Len(qs) ELSE i + 1
\* the index of the query the loop handles after query number i (0-based):
\* the except clause only prints, so the loop goes on to the next query
next_query(qs, i, r) == i + 1

\* a JSON scalar where the code expects a string: a string of characters, or
\* anything else (a number, null)
Str(chars) == [isstr |-> TRUE, s |-> chars]
NotStr == [isstr |-> FALSE, s |-> <<>>]

Competitor(name, share, strengths) ==
    [name |-> name, market_share |-> share, strengths |-> strengths]

\* _generate_fallback_research_data
_generate_fallback_research_data ==
    [market_size_data |->
        [total_addressable_market |-> <<"$", "5", ".", "2", "B">>,
         serviceable_addressable_market |-> <<"$", "2", ".", "1", "B">>,
         target_segment_size |-> <<"$", "8", "0", "0", "M">>,
         growth_rate |-> <<"1", "2", ".", "5", "%">>,
         market_segments |-> <<"Enterprise", "Mid-market", "SMB">>],
     competitor_data |->
        << Competitor("Market Leader Inc", Str(<<"3", "5", "%">>),
                      << <<"brand", "recognition">>, <<"distribution", "network">> >>) >>,
     growth_metrics |-> [cagr_3yr |-> Str(<<"1", "5", ".", "2", "%">>)],
     industry_trends |-> <<"Digital transformation", "AI-driven solutions", "Integrated platforms">>,
     risk_factors |-> <<"Regulatory changes", "New entrants">>,
     financial_projections |-> [average_margin |-> <<"2", "8", "%">>]]

ResearchKeys == {"market_size_data", "competitor_data", "growth_metrics",
                 "industry_trends", "risk_factors", "financial_projections"}

\* what a well-behaved service extracts from the search results
NominalResearch ==
    [market_size_data |->
        [total_addressable_market |-> <<"$", "3", "B">>,
         serviceable_addressable_market |-> <<"$", "1", "B">>,
         target_segment_size |-> <<"$", "2", "0", "0", "M">>,
         growth_rate |-> <<"1", "0", "%">>,
         market_segments |-> <<"A", "B", "C">>],
     competitor_data |->
        << Competitor("Acme", Str(<<"2", "0", "%">>), << <<"innovation">> >>),
           Competitor("Globex", Str(<<"4", "0", "%">>), << <<"brand">> >>) >>,
     growth_metrics |-> [cagr_3yr |-> Str(<<"1", "0", "%">>)],
     industry_trends |-> <<"Trend">>,
     risk_factors |-> <<"Risk">>,
     financial_projections |-> [average_margin |-> <<"3", "0", "%">>]]

\* growth rates and market shares as a generation call may write them: well
\* formed, the key missing (NoValue), a JSON number or null (NotStr), free text
NoValue == [isstr |-> FALSE, s |-> <<"missing">>]
ScalarValues ==
    {Str(<<"1", "0", "%">>), Str(<<"1", "2", ".", "5", "%">>), Str(<<"7">>),
     Str(<<"N", "/", "A">>), Str(<<"~", "1", "0", "%">>), Str(<<>>), NotStr, NoValue}

WithCagr(d, v) ==
    [d EXCEPT !.growth_metrics =
        IF v = NoValue THEN [market_potential |-> <<"$", "9", "B">>]
        ELSE [cagr_3yr |-> v]]
WithShare(d, v) ==
    [d EXCEPT !.competitor_data =
        << IF v = NoValue THEN [name |-> "Acme", strengths |-> << <<"innovation">> >>]
           ELSE Competitor("Acme", v, << <<"innovation">> >>) >>]

\* the records the synthesis call may return: every field, any one field
\* omitted, a field present and empty, odd growth rates and market shares
ResearchDicts ==
    {NominalResearch}
      \cup {Drop(NominalResearch, k) : k \in ResearchKeys}
      \cup {[NominalResearch EXCEPT !.competitor_data = <<>>],
            [NominalResearch EXCEPT !.risk_factors = <<>>],
            [NominalResearch EXCEPT !.growth_metrics = EmptyDict]}
      \cup {WithCagr(NominalResearch, v) : v \in ScalarValues}
      \cup {WithShare(NominalResearch, v) : v \in ScalarValues}

\* the market_data dict _conduct_dynamic_research returns
DynMarketData(srcs, qs, areas, r) ==
    LET parsed == ExtractJson(r)
    IN  [primary_sources |-> Take(srcs, DynSourceCap),
         search_queries_used |-> qs,
         focus_areas |-> areas,
         analyzed_data |-> IF parsed.ok THEN parsed.val
                           ELSE _generate_fallback_research_data]

\* the keys of the record _analyze_research_with_ai is asked for
AdvKey(k) ==
    CASE k = "market_size_data" -> "market_size"
      [] k = "competitor_data" -> "competitors"
      [] k = "growth_metrics" -> "growth_metrics"
      [] k = "industry_trends" -> "trends"
      [] k = "risk_factors" -> "risks"
      [] k = "financial_projections" -> "financials"
AdvRecord(d) ==
    [k \in {AdvKey(x) : x \in DOMAIN d} |->
        d[CHOOSE x \in DOMAIN d : AdvKey(x) = k]]

AdvResearchDicts == {AdvRecord(d) : d \in ResearchDicts}
\* the fallback dict at the end of _analyze_research_with_ai
AdvFallbackResearch ==
    AdvRecord([_generate_fallback_research_data EXCEPT
        !.risk_factors = <<"Regulatory changes", "New entrants", "Economic uncertainty">>])

\* _analyze_research_with_ai: the parsed dict; the fallback when the call or the
\* parse raises or the text holds no '{'
_analyze_research_with_ai(r) ==
    LET parsed == ExtractJson(r)
    IN  IF parsed.ok THEN parsed.val ELSE AdvFallbackResearch

\* the MarketData conduct_comprehensive_research returns
AdvMarketData(srcs, r) ==
    LET research_summary == _analyze_research_with_ai(r)
    IN  [primary_sources |-> Take(srcs, AdvSourceCap),
         market_size_data |-> Get(research_summary, "market_size", EmptyDict),
         competitor_data |-> Get(research_summary, "competitors", <<>>),
         growth_metrics |-> Get(research_summary, "growth_metrics", EmptyDict),
         industry_trends |-> Get(research_summary, "trends", <<>>),
         risk_factors |-> Get(research_summary, "risks", <<>>),
         financial_projections |-> Get(research_summary, "financials", EmptyDict)]

NominalText == <<"{", "k", "}">>

\* for area in focus_areas: one generation call, search_queries.extend(...)
DynQueryStep ==
    /\ pc = "d_queries"
    /\ Has(structure, "research_focus_areas")
    /\ idx < Len(structure.research_focus_areas)
    /\ \E r \in ProseResponses :
         /\ Call("llm", r, Prose(PerAreaCap), ProseError)
         /\ queries' = queries \o area_queries(structure.research_focus_areas[idx + 1], r)
    /\ idx' = idx + 1
    /\ UNCHANGED <<appVars, gen, pc, down, analysis, structure, searched, results, sources,
                   market, data, content, charts, slides, error>>

\* focus_areas is None: the for statement raises TypeError
DynQueriesRaise ==
    /\ pc = "d_queries"
    /\ ~Has(structure, "research_focus_areas")
    /\ pc' = "raised"
    /\ error' = "TypeError"
    /\ UNCHANGED <<appVars, gen, down, budget, analysis, structure, idx, queries, searched,
                   results, sources, market, data, content, charts, slides>>

\* the loop over the focus areas is over: search_queries = search_queries[:12]
DynQueriesDone ==
    /\ pc = "d_queries"
    /\ Has(structure, "research_focus_areas")
    /\ idx = Len(structure.research_focus_areas)
    /\ queries' = CapQueries(queries)
    /\ pc' = "d_search"
    /\ idx' = 0
    /\ UNCHANGED <<appVars, gen, down, budget, analysis, structure, searched, results, sources,
                   market, data, content, charts, slides, error>>

\* search_queries = self._generate_research_queries(problem_statement)
AdvQueries ==
    /\ pc = "a_queries"
    /\ \E r \in AdvProseResponses :
         /\ Call("llm", r, Prose(AdvQueryCap), ProseError)
         /\ queries' = _generate_research_queries(r)
    /\ pc' = "a_search"
    /\ idx' = 0
    /\ UNCHANGED <<appVars, gen, down, analysis, structure, searched, results, sources,
                   market, data, content, charts, slides, error>>

\* for query in search_queries: try: search ... except: print
SearchStep ==
    /\ pc \in {"d_search", "a_search"}
    /\ idx < Len(queries)
    /\ \E r \in SearchOutcomes :
         /\ Call("search", r, NominalSearch, SearchError)
         /\ searched' = Append(searched, queries[idx + 1])
         /\ results' = IF r.raises THEN results ELSE results \cup {queries[idx + 1]}
         /\ sources' = IF r.raises THEN sources
                       ELSE extend_sources(sources, queries[idx + 1], r)
         /\ idx' = next_query(queries, idx, r)
    /\ UNCHANGED <<appVars, gen, pc, down, analysis, structure, queries, market, data,
                   content, charts, slides, error>>

\* the loop over the queries is over
SearchDone ==
    /\ pc \in {"d_search", "a_search"}
    /\ idx >= Len(queries)
    /\ pc' = IF pc = "d_search" THEN "d_synth" ELSE "a_synth"
    /\ UNCHANGED <<appVars, gen, down, budget, analysis, structure, idx, queries, searched,
                   results, sources, market, data, content, charts, slides, error>>

\* the synthesis call and the return of _conduct_dynamic_research
DynSynthesize ==
    /\ pc = "d_synth"
    /\ \E r \in Responses(ResearchDicts) :
         /\ Call("llm", r, Reply(NominalText, NominalResearch), ServiceError)
         /\ market' = DynMarketData(sources, queries, structure.research_focus_areas, r)
    /\ pc' = "d_content"
    /\ idx' = 0
    /\ UNCHANGED <<appVars, gen, down, analysis, structure, queries, searched, results,
                   sources, data, content, charts, slides, error>>

\* _analyze_research_with_ai and the return of conduct_comprehensive_research
AdvSynthesize ==
    /\ pc = "a_synth"
    /\ \E r \in Responses(AdvResearchDicts) :
         /\ Call("llm", r, Reply(NominalText, AdvRecord(NominalResearch)), ServiceError)
         /\ market' = AdvMarketData(sources, r)
    /\ pc' = "a_structure"
    /\ idx' = 0
    /\ UNCHANGED <<appVars, gen, down, analysis, structure, queries, searched, results,
                   sources, data, content, charts, slides, error>>

\* number of off-nominal outcomes injected in one run of a single step of a pipeline
StepFaults == 2

\* the state common to every entry of a run
Fresh ==
    /\ idx = 0
    /\ queries = <<>>
    /\ searched = <<>>
    /\ results = {}
    /\ sources = <<>>
    /\ market = EmptyDict
    /\ data = <<>>
    /\ content = <<>>
    /\ charts = EmptyDict
    /\ slides = <<>>
    /\ error = ""

\* the research step alone: called with any list of focus areas, or none
InitResearch ==
    /\ AppIdle
    /\ gen \in {"dynamic", "advanced"}
    /\ pc = IF gen = "dynamic" THEN "d_queries" ELSE "a_queries"
    /\ down \in SUBSET Services
    /\ budget = StepFaults
    /\ analysis = NominalAnalysis
    /\ structure \in
         IF gen = "dynamic"
         THEN {MkStructure(NominalAnalysis, NominalBlueprint, areas) :
                  areas \in GenAreas \cup {FallbackFocusAreas}}
              \cup {Drop(NominalStructure(NominalAnalysis), "research_focus_areas")}
         ELSE {EmptyDict}
    /\ Fresh

NextResearch ==
    \/ DynQueryStep
    \/ DynQueriesRaise
    \/ DynQueriesDone
    \/ AdvQueries
    \/ SearchStep
    \/ SearchDone
    \/ DynSynthesize
    \/ AdvSynthesize

SpecResearch == InitResearch /\ [][NextResearch]_vars

-----------------------------------------------------------------------------
(* Properties of the research step *)

\* a list or a dict holds something
NonEmpty(v) == DOMAIN v # {}

ResearchReturned == pc \in {"d_content", "a_structure"}

\* C3: the research record the step returns is fully populated, whatever the
\* searches and the synthesis call did: market size, competitors, growth
\* metrics, trends, risks and financial projections are present and non-empty.
C3_ResearchRecordPopulated ==
    /\ (gen = "dynamic" /\ pc = "d_content") =>
          \A k \in ResearchKeys :
              Has(market.analyzed_data, k) /\ NonEmpty(market.analyzed_data[k])
    /\ (gen = "advanced" /\ pc = "a_structure") =>
          \A k \in ResearchKeys : NonEmpty(market[k])

\* C8: every query of the capped list goes to the search capability exactly
\* once and in list order, whether or not earlier queries failed; a failing
\* query adds no source; the step goes on to the synthesis and returns a record.
C8_EveryQuerySearchedInOrder ==
    /\ pc \in {"d_search", "a_search"} => searched = Take(queries, Len(searched))
    /\ pc \in {"d_synth", "a_synth", "d_content", "a_structure"} => searched = queries
    /\ \A j \in 1..Len(sources) : sources[j].query_used \in results
    /\ pc = "raised" => searched = <<>>
    /\ ResearchReturned => Has(market, "primary_sources")

\* the first query failed, a later one succeeded, and the step returned
C8_Witness ==
    /\ ResearchReturned
    /\ Len(searched) > 1
    /\ searched[1] \notin results
    /\ results # {}
    /\ Len(sources) > 0

\* C9: _conduct_dynamic_research issues at most 12 search calls in a run,
\* whatever the number of focus areas and of query lines per area.
C9_AtMostTwelveSearches ==
    gen = "dynamic" => Len(searched) <= QueryCap

\* five focus areas gave three queries each, and twelve searches were made
C9_Witness ==
    /\ gen = "dynamic"
    /\ pc = "d_content"
    /\ Len(structure.research_focus_areas) * PerAreaCap > QueryCap
    /\ down = {}
    /\ budget = StepFaults
    /\ Len(searched) = QueryCap

-----------------------------------------------------------------------------
(* Steps 1 and 2 of generate_fully_dynamic_deck: the analyzer               *)

\* problem_analysis = self.deck_analyzer.analyze_problem_complexity(...)
AnalyzeProblem ==
    /\ pc = "d_analyze"
    /\ \E r \in AnalysisResponses :
         /\ Call("llm", r, Reply(NominalText, NominalAnalysis), ServiceError)
         /\ analysis' = analyze_problem_complexity(r)
    /\ pc' = "d_structure"
    /\ UNCHANGED <<appVars, gen, down, structure, idx, queries, searched, results, sources,
                   market, data, content, charts, slides, error>>

\* deck_structure = self.deck_analyzer.generate_dynamic_structure(problem_analysis)
GenerateStructure ==
    /\ pc = "d_structure"
    /\ \E r \in Responses(StructureDicts(analysis)) :
         /\ Call("llm", r, Reply(NominalText, NominalStructure(analysis)), ServiceError)
         /\ LET res == generate_dynamic_structure(analysis, r)
            IN  IF res.raises
                THEN /\ pc' = "raised"
                     /\ error' = "TypeError: 8 + complexity"
                     /\ structure' = structure
                ELSE /\ pc' = "d_queries"
                     /\ error' = error
                     /\ structure' = res.val
    /\ idx' = 0
    /\ UNCHANGED <<appVars, gen, down, analysis, queries, searched, results, sources,
                   market, data, content, charts, slides>>

InitAnalyzer ==
    /\ AppIdle
    /\ gen = "dynamic"
    /\ pc = "d_analyze"
    /\ down \in SUBSET {"llm"}
    /\ budget = StepFaults
    /\ analysis = EmptyDict
    /\ structure = EmptyDict
    /\ Fresh

NextAnalyzer == AnalyzeProblem \/ GenerateStructure

SpecAnalyzer == InitAnalyzer /\ [][NextAnalyzer]_vars

\* C7: the blueprint of the structure generate_dynamic_structure returns has
\* between 8 and 20 entries, for every analysis result and every outcome of
\* the blueprint generation call.
C7_SectionCountClamped ==
    (gen = "dynamic" /\ pc = "d_queries") =>
        /\ Has(structure, "slide_blueprint")
        /\ Len(structure.slide_blueprint) >= 8
        /\ Len(structure.slide_blueprint) <= 20

-----------------------------------------------------------------------------
(* The content loop: _generate_dynamic_slide_content                       *)
(* (src/fully_dynamic_deck_generator.py) and _generate_slide_content       *)
(* (src/advanced_deck_generator.py)                                        *)

\* the fields of the SlideContent dataclass (advanced_deck_generator.py)
SlideContentFields ==
    {"slide_id", "title", "pyramid_lead", "supporting_points", "chart_insight",
     "so_what_takeaway", "next_steps", "evidence_sources"}

\* the id and the lead of a blueprint entry: slide_number and key_message in
\* the dynamic generator, slide_id and core_insight in the advanced one
EntryId(bp) == IF Has(bp, "slide_number") THEN bp.slide_number ELSE bp.slide_id
EntryLead(bp) == IF Has(bp, "key_message") THEN bp.key_message ELSE bp.core_insight

\* the content a well-behaved service writes for an entry
NominalContent(bp) ==
    [slide_id |-> EntryId(bp), title |-> <<"title", EntryId(bp)>>,
     pyramid_lead |-> <<"insight", EntryId(bp)>>,
     supporting_points |-> <<"point 1", "point 2", "point 3">>,
     chart_insight |-> "what the visual proves",
     so_what_takeaway |-> "implication",
     next_steps |-> <<"step 1", "step 2">>,
     evidence_sources |-> <<"source 1">>]

\* the content a generation call may return: a key missing, a key too many,
\* lists shorter or longer than asked for
ContentDicts(bp) ==
    {NominalContent(bp),
     Drop(NominalContent(bp), "pyramid_lead"),
     Drop(NominalContent(bp), "next_steps"),
     [k \in SlideContentFields \cup {"estimated_impact"} |->
        IF k = "estimated_impact" THEN "High" ELSE NominalContent(bp)[k]],
     [NominalContent(bp) EXCEPT !.supporting_points = <<"point 1">>],
     [NominalContent(bp) EXCEPT !.next_steps = <<>>]}

\* the content_data built in the except branch (slide_id stands for the
\* slide_number key of the dynamic generator)
FallbackContent(bp) ==
    [slide_id |-> EntryId(bp), title |-> <<"title", EntryId(bp)>>,
     pyramid_lead |-> EntryLead(bp),
     supporting_points |-> <<"Analysis based on market research">>,
     chart_insight |-> "Data supports strategic direction",
     so_what_takeaway |-> "Recommendation drives growth",
     next_steps |-> <<"Execute strategic plan">>,
     evidence_sources |-> <<"Market research data">>]

\* _generate_dynamic_slide_content: the parsed dict as it is, or the fallback
_generate_dynamic_slide_content(bp, r) ==
    LET parsed == ExtractJson(r)
    IN  IF parsed.ok THEN parsed.val ELSE FallbackContent(bp)

\* SlideContent(**content_data) raises TypeError unless the keys are exactly
\* the fields of the dataclass
SlideContentAccepts(d) == DOMAIN d = SlideContentFields

\* _generate_slide_content: raises is TRUE when SlideContent(**content_data) raises
_generate_slide_content(bp, r) ==
    LET parsed == ExtractJson(r)
        content_data == IF parsed.ok THEN parsed.val ELSE FallbackContent(bp)
    IN  [raises |-> ~SlideContentAccepts(content_data), val |-> content_data]

\* for blueprint in deck_structure.slide_blueprint: content_slides.append(...)
DynContentStep ==
    /\ pc = "d_content"
    /\ Has(structure, "slide_blueprint")
    /\ idx < Len(structure.slide_blueprint)
    /\ LET bp == structure.slide_blueprint[idx + 1]
       IN  \E r \in Responses(ContentDicts(bp)) :
             /\ Call("llm", r, Reply(NominalText, NominalContent(bp)), ServiceError)
             /\ content' = Append(content, _generate_dynamic_slide_content(bp, r))
    /\ idx' = idx + 1
    /\ UNCHANGED <<appVars, gen, pc, down, analysis, structure, queries, searched, results,
                   sources, market, data, charts, slides, error>>

\* slide_blueprint is None: the for statement raises TypeError
DynContentRaise ==
    /\ pc = "d_content"
    /\ ~Has(structure, "slide_blueprint")
    /\ pc' = "raised"
    /\ error' = "TypeError: 'NoneType' object is not iterable"
    /\ UNCHANGED <<appVars, gen, down, budget, analysis, structure, idx, queries, searched,
                   results, sources, market, data, content, charts, slides>>

DynContentDone ==
    /\ pc = "d_content"
    /\ Has(structure, "slide_blueprint")
    /\ idx = Len(structure.slide_blueprint)
    /\ pc' = "d_charts"
    /\ UNCHANGED <<appVars, gen, down, budget, analysis, structure, idx, queries, searched,
                   results, sources, market, data, content, charts, slides, error>>

\* for blueprint in deck_structure.slide_blueprint: content_slides.append(...)
AdvContentStep ==
    /\ pc = "a_content"
    /\ idx < Len(structure.slide_blueprint)
    /\ LET bp == structure.slide_blueprint[idx + 1]
       IN  \E r \in Responses(ContentDicts(bp)) :
             /\ Call("llm", r, Reply(NominalText, NominalContent(bp)), ServiceError)
             /\ LET res == _generate_slide_content(bp, r)
                IN  IF res.raises
                    THEN /\ pc' = "raised"
                         /\ error' = "TypeError: SlideContent.__init__()"
                         /\ content' = content
                    ELSE /\ pc' = pc
                         /\ error' = error
                         /\ content' = Append(content, res.val)
    /\ idx' = idx + 1
    /\ UNCHANGED <<appVars, gen, down, analysis, structure, queries, searched, results,
                   sources, market, data, charts, slides>>

AdvContentDone ==
    /\ pc = "a_content"
    /\ idx = Len(structure.slide_blueprint)
    /\ pc' = "a_charts"
    /\ UNCHANGED <<appVars, gen, down, budget, analysis, structure, idx, queries, searched,
                   results, sources, market, data, content, charts, slides, error>>

\* a blueprint entry of the advanced generator and of the orchestrator
SlideBlueprint(id, pos, tmpl, visual) ==
    [slide_id |-> id, core_insight |-> <<"finding", id>>, visual_type |-> visual,
     position_in_deck |-> pos, slide_template |-> tmpl]
AdvNominalBlueprint ==
    [j \in 1..MaxGenSlides |->
        SlideBlueprint(j, j, IF j = 1 THEN "title_only" ELSE "chart_main", "bar_chart")]

\* the content loop alone, over any blueprint
InitContent ==
    /\ AppIdle
    /\ gen \in {"dynamic", "advanced"}
    /\ pc = IF gen = "dynamic" THEN "d_content" ELSE "a_content"
    /\ down \in SUBSET {"llm"}
    /\ budget = StepFaults
    /\ analysis = NominalAnalysis
    /\ structure \in
         IF gen = "dynamic"
         THEN {MkStructure(NominalAnalysis, bp, NominalAreas) :
                  bp \in {SubSeq(NominalBlueprint, 1, n) : n \in 0..MaxGenSlides}
                         \cup {_generate_fallback_blueprint(n) : n \in {0, 9, 20}}}
         ELSE {[slide_blueprint |-> SubSeq(AdvNominalBlueprint, 1, n)] : n \in 0..MaxGenSlides}
    /\ Fresh

NextContent ==
    \/ DynContentStep
    \/ DynContentDone
    \/ AdvContentStep
    \/ AdvContentDone

SpecContent == InitContent /\ [][NextContent]_vars

\* C2: the content loop leaves exactly one content unit per blueprint entry,
\* in blueprint order, whatever each generation call did; a failure on one
\* entry never stops the loop.
C2_OneContentUnitPerEntry ==
    /\ pc \in {"d_content", "a_content"} => Len(content) = idx
    /\ pc \in {"d_charts", "a_charts"} => Len(content) = Len(structure.slide_blueprint)
    /\ error # "TypeError: SlideContent.__init__()"

-----------------------------------------------------------------------------
(* Chart generation: _generate_dynamic_charts, _create_competitive_matrix   *)
(* (src/fully_dynamic_deck_generator.py)                                    *)

Digits == {"0", "1", "2", "3", "4", "5", "6", "7", "8", "9"}

\* str.replace(c, '')
Remove(chars, c) == SelectSeq(chars, LAMBDA x : x # c)

\* float(chars) accepts the text: an optional sign, digits with at most one
\* point and at least one digit (over the characters of the model: no blank,
\* no exponent, no "inf" or "nan")
IsFloatLiteral(chars) ==
    LET body == IF chars # <<>> /\ chars[1] \in {"-", "+"} THEN Tail(chars) ELSE chars
    IN  /\ \A i \in 1..Len(body) : body[i] \in Digits \cup {"."}
        /\ Cardinality({i \in 1..Len(body) : body[i] = "."}) <= 1
        /\ \E i \in 1..Len(body) : body[i] \in Digits

\* float(v.replace('%', '')) returns: v is a string (it has replace) and what
\* is left of it is a float literal
FloatOfPercentReturns(v) == v.isstr /\ IsFloatLiteral(Remove(v.s, "%"))

\* the number float(chars) returns for a float literal, in tenths (digits after
\* the first decimal are dropped: the rates of the model have at most one)
FloatTenths(chars) ==
    LET DigitValue(c) == (CHOOSE n \in 1..10 : <<"0", "1", "2", "3", "4", "5", "6", "7", "8", "9">>[n] = c) - 1
        neg == chars # <<>> /\ chars[1] = "-"
        body == IF chars # <<>> /\ chars[1] \in {"-", "+"} THEN Tail(chars) ELSE chars
        point == IF Find(body, ".") = -1 THEN Len(body) ELSE Find(body, ".")
        IntOf[n \in 0..point] == IF n = 0 THEN 0 ELSE IntOf[n - 1] * 10 + DigitValue(body[n])
        tenth == IF point + 2 <= Len(body) THEN DigitValue(body[point + 2]) ELSE 0
    IN  (IF neg THEN -1 ELSE 1) * (IntOf[point] * 10 + tenth)

\* base_value = 100, in units of 0.0001
base_value == 1000000

\* a series that grows by the same amount every period (no compounding)
growth_linear(cagr) == [i \in 1..5 |-> base_value + (i - 1) * (base_value \div 10000) * cagr]

\* [base_value * (1 + cagr) ** i for i in range(5)], cagr in units of 0.0001
\* and the values in units of 0.0001, each product rounded down
growth(cagr) ==
    LET Mul(v) == v + (v \div 10000) * cagr + ((v % 10000) * cagr) \div 10000
        Value[i \in 0..4] == IF i = 0 THEN base_value ELSE Mul(Value[i - 1])
    IN  [i \in 1..5 |-> Value[i - 1]]

\* d.get(k) is truthy: the key is there and its value is not empty
Truthy(d, k) == Has(d, k) /\ DOMAIN d[k] # {}

\* the chart title call of create_dynamic_bar_chart: generated, or the fallback
\* title of its except branch
chart_title(r) == IF r.raises THEN "Market Sizing Analysis" ELSE "generated title"

\* _get_dynamic_ylabel with the percent test before the currency test
_get_dynamic_ylabel_percent_first(d) ==
    LET values == Get(d, "values", <<>>)
        Holds(cs) == \E i \in 1..Len(values[1]) : values[1][i] \in cs
    IN  IF values = <<>> THEN "Value"
        ELSE IF Holds({"%"}) THEN "Percentage (%)"
        ELSE IF Holds({"$", "B", "M"}) THEN "Market Size ($ Billions)"
        ELSE IF Holds(Digits) THEN "Metric Value"
        ELSE "Value"

\* DynamicChartGenerator._get_dynamic_ylabel: a value is the characters of str(value)
_get_dynamic_ylabel(d) ==
    LET values == Get(d, "values", <<>>)
        Holds(cs) == \E i \in 1..Len(values[1]) : values[1][i] \in cs
    IN  IF values = <<>> THEN "Value"
        ELSE IF Holds({"$", "B", "M"}) THEN "Market Size ($ Billions)"
        ELSE IF Holds({"%"}) THEN "Percentage (%)"
        ELSE IF Holds(Digits) THEN "Metric Value"
        ELSE "Value"

\* the chart create_dynamic_bar_chart returns
create_dynamic_bar_chart(d, title) ==
    [type |-> "bar_chart", title |-> title, ylabel |-> _get_dynamic_ylabel(d)]

\* the y test with the keywords in the other order: brand before innovation
matrix_position_brand_first(comp) ==
    LET lower(w) == CASE w = "Innovation" -> "innovation"
                      [] w = "BRAND" -> "brand"
                      [] OTHER -> w
        market_share == FloatTenths(Remove(Get(comp, "market_share", Str(<<"1", "0">>)).s, "%"))
        strengths == Get(comp, "strengths", <<>>)
        mentions(k) == \E j \in 1..Len(strengths) :
                          \E n \in 1..Len(strengths[j]) : lower(strengths[j][n]) = k
    IN  [x |-> IF market_share > 300 THEN 75 ELSE IF market_share > 150 THEN 50 ELSE 25,
         y |-> IF mentions("brand") THEN 50 ELSE IF mentions("innovation") THEN 75 ELSE 25]
\* the x and y of one competitor in _create_competitive_matrix, in hundredths;
\* market_share is in tenths of a percent, a strength is the sequence of its
\* words and s.lower() lowers each word
matrix_position(comp) ==
    LET lower(w) == CASE w = "Innovation" -> "innovation"
                      [] w = "BRAND" -> "brand"
                      [] OTHER -> w
        market_share == FloatTenths(Remove(Get(comp, "market_share", Str(<<"1", "0">>)).s, "%"))
        strengths == Get(comp, "strengths", <<>>)
        mentions(k) == \E j \in 1..Len(strengths) :
                          \E n \in 1..Len(strengths[j]) : lower(strengths[j][n]) = k
    IN  [x |-> IF market_share > 300 THEN 75 ELSE IF market_share > 150 THEN 50 ELSE 25,
         y |-> IF mentions("innovation") THEN 75 ELSE IF mentions("brand") THEN 50 ELSE 25]

\* _create_competitive_matrix returns: float(comp.get('market_share', '10')
\* .replace('%', '')) returns for every competitor
CompetitiveMatrixReturns(competitors) ==
    \A i \in 1..Len(competitors) :
        FloatOfPercentReturns(Get(competitors[i], "market_share", Str(<<"1", "0">>)))

\* the charts of _generate_dynamic_charts, in the order the code makes them
ChartNames(analyzed) ==
    {k \in {"market_sizing", "growth_trajectory", "competitive_landscape",
            "financial_projections", "risk_assessment"} :
        Truthy(analyzed,
               CASE k = "market_sizing" -> "market_size_data"
                 [] k = "growth_trajectory" -> "growth_metrics"
                 [] k = "competitive_landscape" -> "competitor_data"
                 [] k = "financial_projections" -> "financial_projections"
                 [] k = "risk_assessment" -> "risk_factors")}

\* _generate_dynamic_charts: raises names the exception that leaves it, "" when
\* it returns the chart package val
_generate_dynamic_charts(mkt, an, title) ==
    LET analyzed == Get(mkt, "analyzed_data", EmptyDict)
        names == ChartNames(analyzed)
        cagr == Get(analyzed.growth_metrics, "cagr_3yr", Str(<<"1", "5", ".", "2">>))
    IN  IF "growth_trajectory" \in names /\ ~FloatOfPercentReturns(cagr)
        THEN [raises |-> IF cagr.isstr THEN "ValueError: could not convert string to float"
                         ELSE "AttributeError: no attribute 'replace'",
              val |-> EmptyDict]
        ELSE IF "competitive_landscape" \in names
                /\ ~CompetitiveMatrixReturns(analyzed.competitor_data)
        THEN [raises |-> "market_share: could not convert to float", val |-> EmptyDict]
        ELSE [raises |-> "",
              val |-> [k \in names |->
                        CASE k = "market_sizing" ->
                               create_dynamic_bar_chart(
                                   [values |->
                                      <<Get(analyzed.market_size_data, "total_addressable_market",
                                            <<"$", "5", ".", "2", "B">>),
                                        Get(analyzed.market_size_data, "serviceable_addressable_market",
                                            <<"$", "2", ".", "1", "B">>),
                                        Get(analyzed.market_size_data, "target_segment_size",
                                            <<"$", "8", "0", "0", "M">>)>>],
                                   title)
                          [] k = "growth_trajectory" ->
                               [type |-> "line_chart", title |-> "Growth Analysis",
                                datasets |->
                                  <<[label |-> "Current Performance",
                                     data |-> growth(FloatTenths(Remove(cagr.s, "%")) * 10)],
                                    [label |-> "Strategic Scenario",
                                     data |-> growth(FloatTenths(Remove(cagr.s, "%")) * 15)]>>]
                          [] k = "competitive_landscape" ->
                               [type |-> "competitive_matrix", title |-> "Competitive Landscape Analysis",
                                points |-> [i \in 1..Len(analyzed.competitor_data) |->
                                              matrix_position(analyzed.competitor_data[i])]]
                          [] k = "financial_projections" ->
                               [type |-> "waterfall_chart",
                                title |-> Get(an, "problem_type", "growth_strategy")]
                          [] k = "risk_assessment" ->
                               [type |-> "risk_heatmap",
                                title |-> Get(an, "stakeholder_complexity", "medium")]]]

\* chart_package = self._generate_dynamic_charts(market_data, deck_structure, problem_analysis)
DynCharts ==
    /\ pc = "d_charts"
    /\ \E r \in {ProseError, Prose(1)} :
         /\ IF Truthy(market.analyzed_data, "market_size_data")
            THEN Call("llm", r, Prose(1), ProseError)
            ELSE r = ProseError /\ budget' = budget
         /\ LET res == _generate_dynamic_charts(market, analysis, chart_title(r))
            IN  IF res.raises # ""
                THEN /\ pc' = "raised"
                     /\ error' = res.raises
                     /\ charts' = charts
                ELSE /\ pc' = "d_pptx"
                     /\ error' = error
                     /\ charts' = res.val
    /\ UNCHANGED <<appVars, gen, down, analysis, structure, idx, queries, searched, results,
                   sources, market, data, content, slides>>

\* competitors as the synthesis call may describe them: shares on both sides of
\* the two thresholds, strengths with either keyword, both, none, or no list
CompetitorLists ==
    LET shares == {<<"1", "5", "%">>, <<"1", "5", ".", "5", "%">>, <<"3", "0">>,
                   <<"3", "0", ".", "1", "%">>, <<"-", "5">>}
        strengthLists == {<<>>, << <<"strong", "BRAND">> >>, << <<"Innovation", "lab">> >>,
                          << <<"brand">>, <<"scale">>, <<"innovation">> >>}
        comps == {Competitor("Acme", Str(sh), st) : sh \in shares, st \in strengthLists}
                   \cup {[name |-> "Initech"]}
    IN  {<<c>> : c \in comps} \cup {<<c, d>> : c \in {Competitor("Globex", Str(<<"4", "0", "%">>), << <<"brand">> >>)}, d \in comps}
          \cup {<<c, c>> : c \in comps}

\* the chart step alone, on any research record the research step can return
InitCharts ==
    /\ AppIdle
    /\ gen = "dynamic"
    /\ pc = "d_charts"
    /\ down \in SUBSET {"llm"}
    /\ budget = StepFaults
    /\ analysis \in {NominalAnalysis, FallbackAnalysis, [problem_type |-> "cost_optimization"]}
    /\ structure = NominalStructure(analysis)
    /\ idx = 0
    /\ queries = <<>>
    /\ searched = <<>>
    /\ results = {}
    /\ sources = <<>>
    /\ market \in {DynMarketData(<<>>, <<>>, NominalAreas, r) :
                    r \in Responses(ResearchDicts \cup
                            {[NominalResearch EXCEPT !.competitor_data = cs] :
                                cs \in CompetitorLists})}
    /\ data = <<>>
    /\ content = <<>>
    /\ charts = EmptyDict
    /\ slides = <<>>
    /\ error = ""

SpecCharts == InitCharts /\ [][DynCharts]_vars

\* C10 (dynamic generator): the chart step never raises, whatever the growth
\* rate and the market shares of the research record look like.
C10_ChartStepNeverRaises ==
    (gen = "dynamic" /\ pc = "raised") =>
        error \notin {"ValueError: could not convert string to float",
                      "AttributeError: no attribute 'replace'",
                      "market_share: could not convert to float"}

-----------------------------------------------------------------------------
(* Steps 6 and 7 of generate_fully_dynamic_deck: the presentation, the      *)
(* report and the return                                                    *)

\* a rendered section: its layout, the blueprint entry it renders (0: none)
\* and that entry's position
Slide(layout, entry, position) == [layout |-> layout, entry |-> entry, position |-> position]

\* _create_dynamic_powerpoint: a title slide made of the hypothesis, then one
\* slide per content unit in list order
_create_dynamic_powerpoint(deck_structure, content_slides) ==
    <<Slide("title", 0, 0)>>
        \o [i \in 1..Len(content_slides) |->
              Slide("content", i, deck_structure.slide_blueprint[i].slide_number)]

\* pptx_path = self._create_dynamic_powerpoint(...)
DynPowerpoint ==
    /\ pc = "d_pptx"
    /\ slides' = _create_dynamic_powerpoint(structure, content)
    /\ pc' = "d_report"
    /\ UNCHANGED <<appVars, gen, down, budget, analysis, structure, idx, queries, searched,
                   results, sources, market, data, content, charts, error>>

\* report_path = self._generate_dynamic_report(...); return {...}
DynReport ==
    /\ pc = "d_report"
    /\ pc' = "returned"
    /\ UNCHANGED <<appVars, gen, down, budget, analysis, structure, idx, queries, searched,
                   results, sources, market, data, content, charts, slides, error>>

-----------------------------------------------------------------------------
(* DeckOrchestrator.generate_deck                                           *)
(* (src/consulting_deck_generator/core/orchestrator.py, llm/client.py)      *)
(*                                                                          *)
(* The model follows the statements of generate_deck and _render_powerpoint *)
(* with the names they use bound (Presentation in orchestrator.py and       *)
(* datetime in templates.py are used without an import, and the dataclass   *)
(* SlideData of models.py lists a field without default after one with a    *)
(* default).  The slide ids "slide_01", "slide_02", ... are 1, 2, ...       *)

\* LLMClient.step1/2/3: json.loads of the whole text, then of the text between
\* the first "{" and the last "}"; raises names the exception, "" when the
\* call returns val
client_step(r) ==
    LET whole == json_loads(r.text, r.obj)
        start == Find(r.text, "{")
        end == RFind(r.text, "}") + 1
        part == json_loads(Slice(r.text, start, end), r.obj)
    IN  IF r.raises THEN [raises |-> "LLM generation failed", isdict |-> FALSE, val |-> EmptyDict]
        ELSE IF whole.ok THEN [raises |-> "", isdict |-> whole.isdict, val |-> whole.val]
        ELSE IF start # -1 /\ end # -1
             THEN IF part.ok THEN [raises |-> "", isdict |-> part.isdict, val |-> part.val]
                  ELSE [raises |-> "JSONDecodeError", isdict |-> FALSE, val |-> EmptyDict]
             ELSE [raises |-> "Failed to parse LLM response", isdict |-> FALSE, val |-> EmptyDict]

\* the responses of a call of the client: those of any generation call, and a
\* text that is a JSON value but no object
ClientResponses(dicts) == Responses(dicts) \cup {Reply(<<"v">>, EmptyDict)}

\* chart_data a data generation call may write for a slide
FullChart == [labels |-> <<"A", "B">>, datasets |-> <<[label |-> "S", data |-> <<100, 150>>]>>]
Quadrants(n) == [quadrants |-> [q \in 1..n |-> [name |-> <<"quadrant", q>>]]]
ChartDatas ==
    {EmptyDict, FullChart, Drop(FullChart, "labels"), Drop(FullChart, "datasets"),
     [FullChart EXCEPT !.datasets = <<>>], Quadrants(0), Quadrants(1), Quadrants(4)}

\* the SlideContent of a slide: n bullets, with or without a visual_config
Bullets(n) == [b \in 1..n |-> <<"bullet", b>>]
MkContent(id, n, config) ==
    IF config
    THEN [slide_id |-> id, title |-> <<"title", id>>, bullets |-> Bullets(n),
          chart_caption |-> "caption", visual_config |-> [chart_title |-> "Market Size"]]
    ELSE [slide_id |-> id, title |-> <<"title", id>>, bullets |-> Bullets(n),
          chart_caption |-> "caption"]

\* slide_template and visual_type of the slide the service is asked for at
\* position j of the deck, and those it may answer with
NominalLayout(j) ==
    IF j = 1 THEN <<"title_only", "bar_chart">>
    ELSE IF j = 2 THEN <<"two_column", "bar_chart">> ELSE <<"chart_main", "bar_chart">>
Layouts ==
    {<<"title_only", "bar_chart">>, <<"two_column", "bar_chart">>, <<"chart_main", "bar_chart">>,
     <<"chart_main", "table">>, <<"framework", "framework">>}

\* position_in_deck of n slides: any n different values of 1..n+1 (in any
\* order, with or without a gap, starting at 1 or not), or n times the same value
PositionLists(n) ==
    {p \in [1..n -> 1..(n + 1)] :
        \/ \A i, j \in 1..n : p[i] = p[j] => i = j
        \/ \A i, j \in 1..n : p[i] = p[j]}

\* the slides of a blueprint the service may return: slide j has id j
SlideLists ==
    UNION {{[j \in 1..n |-> SlideBlueprint(j, p[j], l[j][1], l[j][2])] :
               p \in PositionLists(n),
               l \in {l \in [1..n -> Layouts] :
                        Cardinality({j \in 1..n : l[j] # NominalLayout(j)}) <= MaxFaults}} :
           n \in 0..MaxGenSlides}
NominalSlides == [j \in 1..MaxGenSlides |-> SlideBlueprint(j, j, NominalLayout(j)[1], NominalLayout(j)[2])]

\* blueprint_raw: the "slides" key missing and a slide without "slide_template" included
BlueprintDicts ==
    {[hypothesis |-> "h", slides |-> bs] : bs \in SlideLists}
      \cup {[hypothesis |-> "h"],
            [hypothesis |-> "h", slides |-> <<Drop(NominalSlides[1], "slide_template")>>]}

\* data_raw for the slides bs: chart data for every slide, or for one slide
\* other chart data, no chart data or no entry at all
NominalData(bs) == [j \in 1..Len(bs) |-> [chart_data |-> FullChart]]
DataDicts(bs) ==
    {[slide_data |-> d] :
        d \in {NominalData(bs)}
              \cup {[NominalData(bs) EXCEPT ![j] = [chart_data |-> cd]] :
                       j \in 1..Len(bs), cd \in ChartDatas}
              \cup {[NominalData(bs) EXCEPT ![j] = EmptyDict] : j \in 1..Len(bs)}
              \cup {Drop(NominalData(bs), j) : j \in 1..Len(bs)}}

\* content_raw for the slides bs: three bullets and a visual_config for every
\* slide, or for one slide other bullets, no visual_config, no title or no entry
NominalSlideContent(bs) == [j \in 1..Len(bs) |-> MkContent(j, 3, TRUE)]
SlideContentDicts(bs) ==
    {[slide_content |-> c] :
        c \in {NominalSlideContent(bs)}
              \cup {[NominalSlideContent(bs) EXCEPT ![j] = MkContent(j, n, cfg)] :
                       j \in 1..Len(bs), n \in 0..MaxLines, cfg \in BOOLEAN}
              \cup {[NominalSlideContent(bs) EXCEPT ![j] = Drop(MkContent(j, 3, TRUE), "title")] :
                       j \in 1..Len(bs)}
              \cup {Drop(NominalSlideContent(bs), j) : j \in 1..Len(bs)}}

\* the temperature each stage of LLMClient passes to _generate_response, in tenths
temperature(step) ==
    CASE step = "step1_engagement_structuring" -> 3
      [] step = "step2_data_generation" -> 2
      [] step = "step3_content_generation" -> 1

\* the exception of the try block is raised again as
\* Exception(f"Deck generation failed: {str(e)}"): error keeps str(e)
OrchRaise(e) ==
    /\ pc' = "raised"
    /\ error' = e

\* STEP 1: blueprint_raw = self.llm_client.step1_engagement_structuring(...);
\* DeckBlueprint(...); blueprint.slides = [SlideBlueprint(...) for slide in blueprint_raw['slides']]
OrchStep1 ==
    /\ pc = "o_step1"
    /\ \E r \in ClientResponses(BlueprintDicts) :
         /\ Call("llm", r, Reply(NominalText, [hypothesis |-> "h", slides |-> NominalSlides]),
                 ServiceError)
         /\ LET res == client_step(r)
                e == IF res.raises # "" THEN res.raises
                     ELSE IF ~res.isdict THEN "AttributeError: no attribute 'get'"
                     ELSE IF ~Has(res.val, "slides") THEN "KeyError: 'slides'"
                     ELSE IF \E j \in 1..Len(res.val.slides) :
                                 ~Has(res.val.slides[j], "slide_template")
                          THEN "KeyError: 'slide_template'"
                     ELSE ""
            IN  IF e # "" THEN OrchRaise(e) /\ structure' = structure
                ELSE /\ structure' = [hypothesis |-> Get(res.val, "hypothesis", ""),
                                      slides |-> res.val.slides]
                     /\ pc' = "o_step2"
                     /\ error' = error
    /\ UNCHANGED <<appVars, gen, down, analysis, idx, queries, searched, results, sources,
                   market, data, content, charts, slides>>

\* STEP 2: data_raw = self.llm_client.step2_data_generation(blueprint_raw);
\* for slide_id, slide_data in data_raw['slide_data'].items(): SlideData(...)
OrchStep2 ==
    /\ pc = "o_step2"
    /\ \E r \in ClientResponses(DataDicts(structure.slides)) :
         /\ Call("llm", r, Reply(NominalText, [slide_data |-> NominalData(structure.slides)]),
                 ServiceError)
         /\ LET res == client_step(r)
                e == IF res.raises # "" THEN res.raises
                     ELSE IF ~res.isdict THEN "TypeError: not subscriptable"
                     ELSE IF ~Has(res.val, "slide_data") THEN "KeyError: 'slide_data'"
                     ELSE ""
            IN  IF e # "" THEN OrchRaise(e) /\ data' = data
                ELSE /\ data' = [id \in DOMAIN res.val.slide_data |->
                                   [chart_data |-> Get(res.val.slide_data[id], "chart_data", EmptyDict)]]
                     /\ pc' = "o_step3"
                     /\ error' = error
    /\ UNCHANGED <<appVars, gen, down, analysis, structure, idx, queries, searched, results,
                   sources, market, content, charts, slides>>

\* STEP 3: content_raw = self.llm_client.step3_content_generation(...);
\* for slide_id, slide_content in content_raw['slide_content'].items(): SlideContent(...)
OrchStep3 ==
    /\ pc = "o_step3"
    /\ \E r \in ClientResponses(SlideContentDicts(structure.slides)) :
         /\ Call("llm", r,
                 Reply(NominalText, [slide_content |-> NominalSlideContent(structure.slides)]),
                 ServiceError)
         /\ LET res == client_step(r)
                e == IF res.raises # "" THEN res.raises
                     ELSE IF ~res.isdict THEN "TypeError: not subscriptable"
                     ELSE IF ~Has(res.val, "slide_content") THEN "KeyError: 'slide_content'"
                     ELSE IF \E id \in DOMAIN res.val.slide_content :
                                 ~Has(res.val.slide_content[id], "title")
                          THEN "KeyError: 'title'"
                     ELSE ""
            IN  IF e # "" THEN OrchRaise(e) /\ content' = content
                ELSE /\ content' = res.val.slide_content
                     /\ pc' = "o_render"
                     /\ error' = error
    /\ idx' = 0
    /\ UNCHANGED <<appVars, gen, down, analysis, structure, queries, searched, results,
                   sources, market, data, charts, slides>>

\* sorted(blueprint.slides, key=lambda x: x.position_in_deck): a stable sort
sorted_slides(bs) ==
    LET n == Len(bs)
        Before(j, i) ==
            \/ bs[j].position_in_deck < bs[i].position_in_deck
            \/ bs[j].position_in_deck = bs[i].position_in_deck /\ j < i
        Rank(i) == Cardinality({j \in 1..n : Before(j, i)}) + 1
    IN  [r \in 1..n |-> bs[CHOOSE i \in 1..n : Rank(i) = r]]

\* ChartGenerator.create_bar_chart(data, title): the exception it raises, "" when
\* it returns the image; has_title is FALSE for title=None
create_bar_chart(chart_data, has_title) ==
    IF ~Has(chart_data, "labels") THEN "KeyError: 'labels'"
    ELSE IF ~Has(chart_data, "datasets") THEN "KeyError: 'datasets'"
    ELSE IF Len(chart_data.datasets) = 0 THEN "ZeroDivisionError: float division by zero"
    ELSE IF ~has_title /\ \E i \in 1..Len(chart_data.datasets) : chart_data.datasets[i].data # <<>>
         THEN "TypeError: argument of type 'NoneType' is not iterable"
    ELSE ""

\* left_col and right_col of the two_column branch
\* the left column taking the larger half
left_col_upper(bullets) ==
    IF Len(bullets) > 1 THEN Take(bullets, (Len(bullets) + 1) \div 2) ELSE bullets
left_col(bullets) == IF Len(bullets) > 1 THEN Take(bullets, Len(bullets) \div 2) ELSE bullets
right_col(bullets) ==
    IF Len(bullets) > 1 THEN Slice(bullets, Len(bullets) \div 2, Len(bullets)) ELSE <<>>

\* the rows of names handed to create_framework_slide for a non-empty list of
\* quadrants: [quadrants[:2], quadrants[2:4]] if len(quadrants) >= 4 else [[quadrants[0]]]
framework_data(quadrants) ==
    LET rows == IF Len(quadrants) >= 4
                THEN <<Slice(quadrants, 0, 2), Slice(quadrants, 2, 4)>>
                ELSE << <<quadrants[1]>> >>
    IN  [r \in 1..Len(rows) |-> [c \in 1..Len(rows[r]) |-> Get(rows[r][c], "name", "")]]

\* one turn of the loop of _render_powerpoint, for the i-th (0-based) slide of
\* the sorted blueprint: raises names the exception, "" when the turn ends;
\* emit holds the slide the turn adds to the presentation, if any.
\* visual_type is "bar_chart" for every chart of the model.
render_slide(i, bp, content_slides, data_slides) ==
    LET has_content == Has(content_slides, bp.slide_id)
        slide_content == content_slides[bp.slide_id]
        chart_data == IF Has(data_slides, bp.slide_id)
                      THEN data_slides[bp.slide_id].chart_data ELSE EmptyDict
        Emit(s) == [raises |-> "", emit |-> <<s>>]
        Pass == [raises |-> "", emit |-> <<>>]
        Raise(e) == [raises |-> e, emit |-> <<>>]
    IN  IF i = 0 THEN Emit(Slide("title", bp.slide_id, bp.position_in_deck))
        ELSE IF bp.slide_template = "two_column"
        THEN IF has_content
             THEN Emit([layout |-> "two_column", entry |-> bp.slide_id,
                        position |-> bp.position_in_deck,
                        left |-> left_col(slide_content.bullets),
                        right |-> right_col(slide_content.bullets)])
             ELSE Pass
        ELSE IF bp.slide_template = "chart_main"
        THEN IF chart_data # EmptyDict /\ bp.visual_type = "bar_chart"
             THEN IF has_content /\ ~Has(slide_content, "visual_config")
                  THEN Raise("AttributeError: 'NoneType' object has no attribute 'get'")
                  ELSE IF create_bar_chart(chart_data, has_content) # ""
                  THEN Raise(create_bar_chart(chart_data, has_content))
                  ELSE Emit(Slide("chart", bp.slide_id, bp.position_in_deck))
             ELSE Pass
        ELSE IF bp.slide_template = "framework"
        THEN IF chart_data # EmptyDict /\ Get(chart_data, "quadrants", <<>>) # <<>>
             THEN Raise("KeyError: 'light_gray'")
             ELSE Pass
        ELSE Pass

\* STEP 4, one turn of: for i, slide_blueprint in enumerate(sorted_slides)
OrchRenderStep ==
    /\ pc = "o_render"
    /\ idx < Len(structure.slides)
    /\ LET res == render_slide(idx, sorted_slides(structure.slides)[idx + 1], content, data)
       IN  IF res.raises # ""
           THEN OrchRaise(res.raises) /\ UNCHANGED <<appVars, idx, slides>>
           ELSE /\ slides' = slides \o res.emit
                /\ idx' = idx + 1
                /\ UNCHANGED <<appVars, pc, error>>
    /\ UNCHANGED <<appVars, gen, down, budget, analysis, structure, queries, searched, results,
                   sources, market, data, content, charts>>

\* prs.save(pptx_path); return pptx_path
OrchRenderDone ==
    /\ pc = "o_render"
    /\ idx = Len(structure.slides)
    /\ pc' = "o_export"
    /\ UNCHANGED <<appVars, gen, down, budget, analysis, structure, idx, queries, searched,
                   results, sources, market, data, content, charts, slides, error>>

\* STEP 5: pdf_path = self._export_to_pdf(pptx_path); return GeneratedDeck(...)
OrchExport ==
    /\ pc = "o_export"
    /\ pc' = "returned"
    /\ UNCHANGED <<appVars, gen, down, budget, analysis, structure, idx, queries, searched,
                   results, sources, market, data, content, charts, slides, error>>

-----------------------------------------------------------------------------
(* The entry points, from the call to the return                            *)

Init ==
    /\ AppIdle
    /\ gen \in {"dynamic", "orchestrator"}
    /\ pc = IF gen = "dynamic" THEN "d_analyze" ELSE "o_step1"
    /\ down \in SUBSET Services
    /\ budget = MaxFaults
    /\ analysis = EmptyDict
    /\ structure = EmptyDict
    /\ Fresh

Next ==
    \/ AnalyzeProblem
    \/ GenerateStructure
    \/ DynQueryStep
    \/ DynQueriesRaise
    \/ DynQueriesDone
    \/ SearchStep
    \/ SearchDone
    \/ DynSynthesize
    \/ DynContentStep
    \/ DynContentRaise
    \/ DynContentDone
    \/ DynCharts
    \/ DynPowerpoint
    \/ DynReport
    \/ OrchStep1
    \/ OrchStep2
    \/ OrchStep3
    \/ OrchRenderStep
    \/ OrchRenderDone
    \/ OrchExport

Spec == Init /\ [][Next]_vars

\* the first stage of the entry point has succeeded: the classification of
\* the dynamic generator always returns, the orchestrator has built its blueprint
FirstStageSucceeded ==
    \/ gen = "dynamic" /\ pc # "d_analyze"
    \/ gen = "orchestrator" /\ Has(structure, "slides")

\* the renderer has finished
Rendered ==
    \/ gen = "dynamic" /\ pc \in {"d_report", "returned"}
    \/ gen = "orchestrator" /\ pc \in {"o_export", "returned"}

\* the blueprint entries and the position of an entry
Entries == IF gen = "dynamic" THEN structure.slide_blueprint ELSE structure.slides
Position(bp) == IF gen = "dynamic" THEN bp.slide_number ELSE bp.position_in_deck

\* C1: once the first stage has succeeded, no failure of a later stage
\* (blueprint, research, data, content, visualization) reaches the caller: the
\* entry point never ends with an exception.
C1_NoLaterStageFailureReachesCaller ==
    FirstStageSucceeded => pc # "raised"

\* C4: when the renderer has finished, the presentation holds exactly one
\* slide per blueprint entry.
C4_OneSlidePerEntry ==
    Rendered => Len(slides) = Len(Entries)

\* C5: the slides are emitted in ascending position order whatever the order
\* of the blueprint list, and the first slide is the title slide made of the
\* entry with the smallest position.
C5_SlidesInPositionOrder ==
    Rendered =>
        /\ \A i, j \in 1..Len(slides) :
              (i < j /\ slides[i].entry # 0 /\ slides[j].entry # 0)
                  => slides[i].position <= slides[j].position
        /\ Len(Entries) > 0 =>
              /\ slides[1].layout = "title"
              /\ slides[1].entry # 0
              /\ \A k \in 1..Len(Entries) : slides[1].position <= Position(Entries[k])

\* C6: the orchestrator renders no slide of a blueprint whose positions are
\* not exactly 1..n (a gap, a duplicate, a start other than 1).
C6_NoSlideOfInvalidPositions ==
    (gen = "orchestrator" /\ Len(slides) > 0) =>
        {structure.slides[j].position_in_deck : j \in 1..Len(structure.slides)}
            = 1..Len(structure.slides)

\* C11: when the orchestrator has finished rendering, every blueprint entry
\* whose template is chart_main has a slide in the presentation, with or
\* without a chart image (no slide data, empty chart data, a visual type that
\* has no chart renderer).
C11_ChartMainAlwaysEmitted ==
    (gen = "orchestrator" /\ Rendered) =>
        \A j \in 1..Len(structure.slides) :
            structure.slides[j].slide_template = "chart_main" =>
                \E k \in 1..Len(slides) : slides[k].entry = structure.slides[j].slide_id

\* C12: every content unit of the content loop, the fallback unit included,
\* has every field of the schema, 3 to 5 supporting points and 2 to 3 next steps.
C12_ContentUnitFullyFormed ==
    gen \in {"dynamic", "advanced"} =>
        \A i \in 1..Len(content) :
            /\ SlideContentFields \subseteq DOMAIN content[i]
            /\ Len(content[i].supporting_points) \in 3..5
            /\ Len(content[i].next_steps) \in 2..3

\* C13: a step of LLMClient returns a JSON object or fails with a parse
\* error, so generate_deck never fails on a returned value that is no object
\* (blueprint_raw.get on a list, data_raw['slide_data'] on a number).
C13_ClientNeverReturnsNonObject ==
    (gen = "orchestrator" /\ pc = "raised") =>
        error \notin {"AttributeError: no attribute 'get'", "TypeError: not subscriptable"}

OnFallbackPath ==
    /\ gen = "dynamic"
    /\ pc = "d_queries"
    /\ Has(structure, "research_focus_areas")
    /\ structure.research_focus_areas = FallbackFocusAreas

\* C15: the blueprint of _generate_fallback_blueprint is numbered 1, 2, ..., n
\* in list order, for every slide_count (0, 1, 2 and more than 10 included).
C15_FallbackBlueprintNumbered ==
    OnFallbackPath =>
        \A j \in 1..Len(structure.slide_blueprint) :
            structure.slide_blueprint[j].slide_number = j

\* the fallback blueprint for slide_count = 0
C15_Witness ==
    /\ OnFallbackPath
    /\ structure.total_slides = 0
    /\ Len(structure.slide_blueprint) = 2

-----------------------------------------------------------------------------
(* DynamicChartGenerator.create_dynamic_bar_chart called on its own         *)

\* longest series of values handed to create_dynamic_bar_chart
MaxValues == 2

\* the values of a series, as str(value) spells them
ValueTexts ==
    {<<"$", "5", ".", "2", "B">>, <<"8", "0", "0", "M">>, <<"1", "2", "%">>, <<"$", "5", "%">>,
     <<"4", "2">>, <<"N", "/", "A">>, <<"%">>, <<>>}

\* create_dynamic_bar_chart(data, chart_context)
CreateDynamicBarChart ==
    /\ pc = "bar_chart"
    /\ \E r \in {ProseError, Prose(1)} :
         /\ Call("llm", r, Prose(1), ProseError)
         /\ charts' = [market_sizing |-> create_dynamic_bar_chart(data, chart_title(r))]
    /\ pc' = "returned"
    /\ UNCHANGED <<appVars, gen, down, analysis, structure, idx, queries, searched, results,
                   sources, market, data, content, slides, error>>

InitBarChart ==
    /\ AppIdle
    /\ gen = "dynamic"
    /\ pc = "bar_chart"
    /\ down \in SUBSET {"llm"}
    /\ budget = StepFaults
    /\ analysis = EmptyDict
    /\ structure = EmptyDict
    /\ idx = 0
    /\ queries = <<>>
    /\ searched = <<>>
    /\ results = {}
    /\ sources = <<>>
    /\ market = EmptyDict
    /\ data \in {[labels |-> <<>>]}
                  \cup {[labels |-> <<>>, values |-> vs] :
                           vs \in UNION {[1..n -> ValueTexts] : n \in 0..MaxValues}}
    /\ content = <<>>
    /\ charts = EmptyDict
    /\ slides = <<>>
    /\ error = ""

SpecBarChart == InitBarChart /\ [][CreateDynamicBarChart]_vars

CagrText ==
    Get(market.analyzed_data.growth_metrics, "cagr_3yr", Str(<<"1", "5", ".", "2">>)).s

\* the chart step returned a growth chart
GrowthCharted == gen = "dynamic" /\ pc = "d_pptx" /\ "growth_trajectory" \in DOMAIN charts

\* C16: the growth series has exactly 5 points, starts at the base 100 and, for
\* a rate of p whole percent, point i is 100 * (1 + p / 100)^i within 0.01; for
\* "10%" it is 100, 110, 121, 133.1, 146.41.  Values are in units of 0.0001.
C16_GrowthSeriesCompounds ==
    GrowthCharted =>
        LET series == charts.growth_trajectory.datasets[1].data
            p == FloatTenths(Remove(CagrText, "%")) \div 10
            f == 100 + p
            Expected == <<1000000, f * 10000, f * f * 100, f * f * f, (f * f * f * f) \div 100>>
            Near(a, b) == a - b <= 100 /\ b - a <= 100
        IN  /\ Len(series) = 5
            /\ series[1] = 1000000
            /\ FloatTenths(Remove(CagrText, "%")) % 10 = 0 =>
                  \A i \in 1..5 : Near(series[i], Expected[i])
            /\ CagrText = <<"1", "0", "%">> =>
                  /\ Near(series[2], 1100000)
                  /\ Near(series[3], 1210000)
                  /\ Near(series[4], 1331000)
                  /\ Near(series[5], 1464100)

\* the growth chart was made from cagr_3yr = "10%"
C16_Witness ==
    /\ GrowthCharted
    /\ CagrText = <<"1", "0", "%">>
    /\ charts.growth_trajectory.datasets[1].data[5] = 1464100

\* C18: on the fallback path the blueprint is the executive summary, the
\* hypothesis and recommended_slide_count - 2 analysis entries: its length is
\* the recommended slide count of the analysis.
C18_FallbackLengthIsRecommendedCount ==
    OnFallbackPath =>
        LET bp == structure.slide_blueprint
        IN  /\ Len(bp) = Get(analysis, "recommended_slide_count", 10)
            /\ bp[1].purpose = "executive_summary"
            /\ bp[2].purpose = "hypothesis"
            /\ \A j \in 3..Len(bp) : bp[j].purpose = "analysis"

\* C19: on the fallback path total_slides is the number of blueprint entries.
C19_TotalSlidesIsBlueprintLength ==
    OnFallbackPath => structure.total_slides = Len(structure.slide_blueprint)

\* C20: the primary_sources of the record the research step returns are at
\* most 15 and are the best of the pool by relevance score: no result of the
\* pool that was left out scores strictly higher than a result that was kept.
\* (The list returned is cut from the front of the pool, so the results left
\* out are the ones of the pool past its length.)
C20_PrimarySourcesTopRanked ==
    ResearchReturned =>
        LET kept == market.primary_sources
        IN  /\ Len(kept) <= DynSourceCap
            /\ \A j \in (Len(kept) + 1)..Len(sources) :
                  \A k \in 1..Len(kept) : sources[j].score <= kept[k].score

\* C21: before the cap, each focus area already visited has added 2 or 3
\* queries (its generation call succeeded) or exactly the one fallback query
\* (the call failed); no area has added none.
C21_EveryAreaContributes ==
    (gen = "dynamic" /\ pc = "d_queries" /\ Has(structure, "research_focus_areas")) =>
        \A i \in 1..idx :
            LET qs == SelectSeq(queries,
                        LAMBDA q : q.area = structure.research_focus_areas[i])
            IN  \/ Len(qs) \in {2, 3} /\ \A j \in 1..Len(qs) : qs[j].n # 0
                \/ qs = <<Query(structure.research_focus_areas[i], 0)>>

\* the chart step returned a competitive matrix
MatrixCharted == gen = "dynamic" /\ pc = "d_pptx" /\ "competitive_landscape" \in DOMAIN charts

\* C22: in the competitive matrix the coordinates of an entity come from its
\* own data only: x is 0.75 for a share above 30, 0.5 for a share above 15 and
\* at most 30, 0.25 otherwise; y is 0.75 when a strength mentions innovation,
\* else 0.5 when one mentions brand, else 0.25.  Both are in {0.25, 0.5, 0.75}
\* and two entities with the same data get the same point, whatever their index.
C22_MatrixCoordinatesBucketed ==
    MatrixCharted =>
        LET comps == market.analyzed_data.competitor_data
            pts == charts.competitive_landscape.points
            share(c) == FloatTenths(Remove(Get(c, "market_share", Str(<<"1", "0">>)).s, "%"))
            words(c) == {w \in {"innovation", "Innovation", "brand", "BRAND"} :
                            \E j \in 1..Len(Get(c, "strengths", <<>>)) :
                                \E n \in 1..Len(c.strengths[j]) : c.strengths[j][n] = w}
        IN  /\ Len(pts) = Len(comps)
            /\ \A i \in 1..Len(comps) :
                 /\ pts[i].x \in {25, 50, 75} /\ pts[i].y \in {25, 50, 75}
                 /\ pts[i].x = 75 <=> share(comps[i]) > 300
                 /\ pts[i].x = 50 <=> (share(comps[i]) > 150 /\ share(comps[i]) <= 300)
                 /\ pts[i].y = 75 <=> words(comps[i]) \cap {"innovation", "Innovation"} # {}
                 /\ pts[i].y = 50 <=> (words(comps[i]) \cap {"innovation", "Innovation"} = {}
                                        /\ words(comps[i]) # {})
            /\ \A i, j \in 1..Len(comps) : comps[i] = comps[j] => pts[i] = pts[j]

\* two entities: the second has a share between the thresholds and strengths
\* that mention both keywords, the first is the leader; a third case, the same
\* entity twice, is covered by the inputs as well
C22_Witness ==
    /\ MatrixCharted
    /\ Len(charts.competitive_landscape.points) = 2
    /\ charts.competitive_landscape.points[1] = [x |-> 75, y |-> 50]
    /\ charts.competitive_landscape.points[2] = [x |-> 50, y |-> 75]
    /\ Len(market.analyzed_data.competitor_data[2].strengths) = 3

-----------------------------------------------------------------------------
(* DeckOrchestrator._render_powerpoint called on its own                    *)

\* the renderer alone, on a blueprint of 1..MaxGenSlides slides that all ask for
\* the same template (in deck order or in reverse), with the same number of
\* bullets for every slide (or no content at all) and the same chart data
InitRender ==
    /\ AppIdle
    /\ gen = "orchestrator"
    /\ pc = "o_render"
    /\ down = {}
    /\ budget = 0
    /\ analysis = EmptyDict
    /\ \E n \in 1..MaxGenSlides :
         /\ structure \in
              {[hypothesis |-> "h",
                slides |-> [j \in 1..n |->
                              SlideBlueprint(j, IF rev THEN n + 1 - j ELSE j, tv[1], tv[2])]] :
                 rev \in BOOLEAN,
                 tv \in Layouts \ {<<"title_only", "bar_chart">>}}
         /\ content \in {[j \in 1..n |-> MkContent(j, k, TRUE)] : k \in 0..(MaxLines + 1)}
                          \cup {<<>>}
         /\ data \in {[j \in 1..n |-> [chart_data |-> cd]] :
                         cd \in ChartDatas \cup {Quadrants(q) : q \in {2, 3, 5}}}
    /\ idx = 0
    /\ queries = <<>>
    /\ searched = <<>>
    /\ results = {}
    /\ sources = <<>>
    /\ market = EmptyDict
    /\ charts = EmptyDict
    /\ slides = <<>>
    /\ error = ""

NextRender ==
    \/ OrchRenderStep
    \/ OrchRenderDone
    \/ OrchExport

SpecRender == InitRender /\ [][NextRender]_vars

\* C23: for every bullet list the two_column branch makes a left and a right
\* column whose concatenation, left then right, is the list in its order, and
\* whose lengths differ by at most one.
C23_TwoColumnsPartitionBullets ==
    gen = "orchestrator" =>
        \A k \in 1..Len(slides) :
            slides[k].layout = "two_column" =>
                /\ slides[k].left \o slides[k].right = content[slides[k].entry].bullets
                /\ Len(slides[k].left) - Len(slides[k].right) \in {-1, 0, 1}

\* the deck was rendered and a list of five bullets was split into two and three
C23_Witness ==
    /\ gen = "orchestrator"
    /\ pc = "returned"
    /\ \E k \in 1..Len(slides) :
          /\ slides[k].layout = "two_column"
          /\ Len(slides[k].left) = 2
          /\ Len(slides[k].right) = 3

\* C24: whenever the framework branch renders (the chart data of the entry has
\* at least one quadrant), the grid handed to create_framework_slide has
\* exactly two rows of exactly two cells, for any number of quadrants.
C24_FrameworkGridIsTwoByTwo ==
    (gen = "orchestrator" /\ pc = "raised" /\ error = "KeyError: 'light_gray'") =>
        LET bp == sorted_slides(structure.slides)[idx + 1]
            grid == framework_data(data[bp.slide_id].chart_data.quadrants)
        IN  /\ Len(grid) = 2
            /\ \A r \in 1..Len(grid) : Len(grid[r]) = 2

\* C25: each stage of the client sets its temperature per call, and once the
\* three stages have been called the temperature used for the content call
\* (step3) is strictly higher than those of the structuring call (step1) and
\* of the data call (step2).
C25_ContentTemperatureHighest ==
    (gen = "orchestrator" /\ pc = "o_render") =>
        /\ temperature("step3_content_generation") > temperature("step1_engagement_structuring")
        /\ temperature("step3_content_generation") > temperature("step2_data_generation")

\* C26: the stages of a run execute in the order analysis, blueprint, research,
\* content, visualization, rendering: no search is made before the blueprint
\* exists, and rendering does not start before there is a content unit for
\* every blueprint entry.
C26_StagesInOrder ==
    /\ (pc \in {"d_search", "a_search", "d_synth", "a_synth"} \/ searched # <<>>) =>
          Has(structure, "slide_blueprint")
    /\ pc \in {"d_pptx", "d_report"} =>
          Len(content) = Len(structure.slide_blueprint)

-----------------------------------------------------------------------------
(* The web application: User, /consult and /billing/upgrade                 *)
(* (src/models.py, src/app.py)                                              *)
(*                                                                          *)
(* The routes are modelled with their names bound: app.py imports           *)
(* DeckGeneration from models.py, which does not define it.  A request is   *)
(* one step, except /consult, which is cut where it calls the services:     *)
(* requests of the same user overlap there.                                 *)

\* /consult requests of one user served at the same time
MaxRequests == 2
\* rows of the Consultation table
MaxConsultations == 4
\* the clock stops here
MaxTime == 40

UserIds == {"u1", "u2"}

\* a nullable DateTime column: None, or a day
NoDate == [set |-> FALSE, at |-> 0]
Date(t) == [set |-> TRUE, at |-> t]

\* the row register() inserts: the column defaults of User
NewUser ==
    [is_premium |-> FALSE, billing_active |-> FALSE, consultations_count |-> 0,
     monthly_limit |-> 3, subscription_end |-> NoDate]

\* User.can_consult, at time t
can_consult(user, t) ==
    IF user.is_premium /\ user.billing_active
    THEN ~(user.subscription_end.set /\ t > user.subscription_end.at)
    ELSE user.consultations_count < user.monthly_limit

\* User.remaining_consultations, at time t: the number it returns, or the text
\* "Unlimited" / "Unlimited (expires in {days_left} days)"
remaining_consultations(user, t) ==
    IF user.is_premium /\ user.billing_active
    THEN IF user.subscription_end.set
         THEN [unlimited |-> TRUE, n |-> user.subscription_end.at - t]
         ELSE [unlimited |-> TRUE, n |-> 0]
    ELSE [unlimited |-> FALSE, n |-> Max(0, user.monthly_limit - user.consultations_count)]

\* a response: the route, the user it serves ("" when not logged in), the
\* status, the consultation id or the token of the URL and the id of the
\* consultation whose content the response carries (0: none)
Response(route, user, status, asked, shown) ==
    [route |-> route, user |-> user, status |-> status, asked |-> asked, shown |-> shown]

\* consult(), up to the check of the limit: the request loads the User row of
\* the session (load_user), an empty query or a user over the limit is
\* redirected, any other request goes on to the consultation itself with the
\* consultations_count it has loaded
ConsultBegin ==
    \E u \in DOMAIN users, query \in {"", "q"} :
        /\ Cardinality({r \in DOMAIN requests : requests[r].user = u}) < MaxRequests
        /\ IF query = ""
           THEN /\ response' = Response("consult", u, "redirect dashboard", 0, 0)
                /\ requests' = requests
           ELSE IF ~can_consult(users[u], now)
           THEN /\ response' = Response("consult", u, "redirect billing", 0, 0)
                /\ requests' = requests
           ELSE /\ requests' = Append(requests,
                                       [user |-> u,
                                        consultations_count |-> users[u].consultations_count])
                /\ response' = response
        /\ UNCHANGED <<pipelineVars, users, consultations, notes, shared, decks, exports, now>>

\* consult(), from the searches to the return: an exception of the try block
\* leaves the tables alone; otherwise increment_usage writes the count of the
\* loaded User object plus one and the consultation is inserted
ConsultEnd ==
    \E r \in DOMAIN requests, raised \in BOOLEAN :
        LET u == requests[r].user
            rest == [j \in 1..(Len(requests) - 1) |->
                        IF j < r THEN requests[j] ELSE requests[j + 1]]
        IN  /\ requests' = rest
            /\ IF raised \/ Len(consultations) >= MaxConsultations
               THEN /\ response' = Response("consult", u, "redirect dashboard", 0, 0)
                    /\ UNCHANGED <<users, consultations>>
               ELSE /\ users' = [users EXCEPT ![u].consultations_count =
                                    requests[r].consultations_count + 1]
                    /\ consultations' = Append(consultations,
                                               [user_id |-> u, report_generated |-> FALSE])
                    /\ response' = Response("consult", u, "redirect consultation_detail",
                                            Len(consultations) + 1, 0)
            /\ UNCHANGED <<pipelineVars, notes, shared, decks, exports, now>>

\* upgrade(): a Billing row, then is_premium, billing_active and a
\* subscription_end 30 days from now; a failure rolls back
Upgrade ==
    \E u \in DOMAIN users, raised \in BOOLEAN :
        /\ IF raised THEN users' = users
           ELSE users' = [users EXCEPT ![u].is_premium = TRUE,
                                       ![u].billing_active = TRUE,
                                       ![u].subscription_end = Date(now + 30)]
        /\ response' = Response("upgrade", u, "redirect billing", 0, 0)
        /\ UNCHANGED <<pipelineVars, requests, consultations, notes, shared, decks, exports, now>>

\* time passes: to a date stored in a row, or to the day after it
Tick ==
    /\ \E t \in {users[u].subscription_end.at :
                    u \in {v \in DOMAIN users : users[v].subscription_end.set}}
                  \cup {shared[j].expires_at.at :
                          j \in {k \in DOMAIN shared : shared[k].expires_at.set}} :
          /\ t >= now
          /\ now' = IF t > now THEN t ELSE t + 1
          /\ now' <= MaxTime
    /\ UNCHANGED <<pipelineVars, users, requests, consultations, notes, shared, decks,
                   exports, response>>

\* the application after register() of one user
InitConsult ==
    /\ gen = "app"
    /\ pc = "serving"
    /\ down = {}
    /\ budget = 0
    /\ analysis = EmptyDict
    /\ structure = EmptyDict
    /\ Fresh
    /\ users = [u \in {"u1"} |-> NewUser]
    /\ requests = <<>>
    /\ consultations = <<>>
    /\ notes = <<>>
    /\ shared = <<>>
    /\ decks = <<>>
    /\ exports = <<>>
    /\ now = 0
    /\ response = Response("register", "u1", "redirect login", 0, 0)

NextConsult ==
    \/ ConsultBegin
    \/ ConsultEnd
    \/ Upgrade
    \/ Tick

SpecConsult == InitConsult /\ [][NextConsult]_vars

\* C27: for a user who is not premium, consultations_count never exceeds
\* monthly_limit, and /consult completes a consultation (inserts its row) only
\* while the count is below the limit, also when several /consult requests of
\* the user are served at the same time.
C27_ConsultOnlyBelowLimit ==
    /\ [](\A u \in DOMAIN users :
            ~users[u].is_premium =>
                users[u].consultations_count <= users[u].monthly_limit)
    /\ [][\A u \in DOMAIN users :
            (/\ ~users[u].is_premium
             /\ Len(consultations') = Len(consultations) + 1
             /\ consultations'[Len(consultations')].user_id = u)
            => users[u].consultations_count < users[u].monthly_limit]_vars

\* C30: can_consult() and remaining_consultations() agree in every User state:
\* can_consult() is False exactly when remaining_consultations() reports 0.
C30_CanConsultAgreesWithRemaining ==
    gen = "app" =>
        \A u \in DOMAIN users :
            ~can_consult(users[u], now) <=>
                remaining_consultations(users[u], now) = [unlimited |-> FALSE, n |-> 0]

-----------------------------------------------------------------------------
(* The web application: the routes of one consultation and the share link   *)
(* (src/app.py)                                                             *)

\* rows the routes add to the tables related to a consultation, all tables together
MaxRows == 2

Rows == Len(notes) + Len(shared) + Len(decks) + Len(exports)

\* the consultation of the URL: db.session.get / get_or_404
Known(consultation_id) == consultation_id \in DOMAIN consultations

\* the check left out
access_denied_never(consultation, current_user) == FALSE
\* the check every route makes: consultation.user_id != current_user.id
access_denied(consultation, current_user) == consultation.user_id # current_user

\* the routes that read a consultation and write no row, with what each
\* answers to a user who is not the owner
ReadRoutes ==
    [consultation_detail |-> "redirect dashboard",
     consultation_pdf |-> "403",
     export_consultation_json |-> "403",
     email_report |-> "redirect dashboard",
     get_consultation_notes |-> "403",
     generate_comprehensive_report |-> "redirect dashboard",
     deck_preview |-> "redirect dashboard"]

\* consultation_detail, consultation_pdf, export_consultation_json, email_report,
\* get_consultation_notes, generate_comprehensive_report, deck_preview; the
\* last-but-one and email_report catch an exception of the generation or of
\* the mail and redirect
ReadRoute ==
    \E route \in DOMAIN ReadRoutes, u \in DOMAIN users,
       id \in 1..(Len(consultations) + 1), raised \in BOOLEAN :
        /\ raised => route \in {"email_report", "generate_comprehensive_report"}
        /\ response' =
             IF ~Known(id) THEN Response(route, u, "404", id, 0)
             ELSE IF access_denied(consultations[id], u)
             THEN Response(route, u, ReadRoutes[route], id, 0)
             ELSE IF raised THEN Response(route, u, "redirect consultation_detail", id, 0)
             ELSE Response(route, u, "200", id, id)
        /\ UNCHANGED <<pipelineVars, users, requests, consultations, notes, shared, decks,
                       exports, now>>

\* generate_report: the stored report, or a new one stored in the row
GenerateReport ==
    \E u \in DOMAIN users, id \in 1..(Len(consultations) + 1) :
        /\ IF ~Known(id)
           THEN response' = Response("generate_report", u, "404", id, 0)
                /\ consultations' = consultations
           ELSE IF access_denied(consultations[id], u)
           THEN response' = Response("generate_report", u, "redirect dashboard", id, 0)
                /\ consultations' = consultations
           ELSE response' = Response("generate_report", u, "200", id, id)
                /\ consultations' = [consultations EXCEPT ![id].report_generated = TRUE]
        /\ UNCHANGED <<pipelineVars, users, requests, notes, shared, decks, exports, now>>

\* export_consultation: json and csv write the file and an ExportHistory row,
\* pdf sends the file, any other format is refused
ExportConsultation ==
    \E u \in DOMAIN users, id \in 1..(Len(consultations) + 1),
       fmt \in {"json", "csv", "pdf", "xml"} :
        /\ Rows < MaxRows
        /\ IF ~Known(id)
           THEN response' = Response("export_consultation", u, "404", id, 0)
                /\ exports' = exports
           ELSE IF access_denied(consultations[id], u)
           THEN response' = Response("export_consultation", u, "redirect dashboard", id, 0)
                /\ exports' = exports
           ELSE IF fmt = "xml"
           THEN response' = Response("export_consultation", u, "400", id, 0)
                /\ exports' = exports
           ELSE IF fmt = "pdf"
           THEN response' = Response("export_consultation", u, "200", id, id)
                /\ exports' = exports
           ELSE response' = Response("export_consultation", u, "200", id, id)
                /\ exports' = Append(exports, [user_id |-> u, consultation_id |-> id,
                                               export_type |-> fmt])
        /\ UNCHANGED <<pipelineVars, users, requests, consultations, notes, shared, decks, now>>

\* share_consultation: one SharedConsultation row per recipient, with a new
\* token and expires_at 7 days from now
ShareConsultation ==
    \E u \in DOMAIN users, id \in 1..(Len(consultations) + 1), recipients \in 0..2 :
        /\ Rows + recipients <= MaxRows
        /\ IF ~Known(id)
           THEN response' = Response("share_consultation", u, "404", id, 0)
                /\ shared' = shared
           ELSE IF access_denied(consultations[id], u)
           THEN response' = Response("share_consultation", u, "403", id, 0)
                /\ shared' = shared
           ELSE response' = Response("share_consultation", u, "200", id, 0)
                /\ shared' = shared \o
                      [j \in 1..recipients |->
                          [consultation_id |-> id, shared_by |-> u,
                           access_token |-> Len(shared) + j,
                           expires_at |-> Date(now + 7)]]
        /\ UNCHANGED <<pipelineVars, users, requests, consultations, notes, decks, exports, now>>

\* add_consultation_note: a ConsultationNote row, unless the content is empty
AddConsultationNote ==
    \E u \in DOMAIN users, id \in 1..(Len(consultations) + 1), text \in {"", "note"} :
        /\ Rows < MaxRows
        /\ IF ~Known(id)
           THEN response' = Response("add_consultation_note", u, "404", id, 0)
                /\ notes' = notes
           ELSE IF access_denied(consultations[id], u)
           THEN response' = Response("add_consultation_note", u, "403", id, 0)
                /\ notes' = notes
           ELSE IF text = ""
           THEN response' = Response("add_consultation_note", u, "400", id, 0)
                /\ notes' = notes
           ELSE response' = Response("add_consultation_note", u, "200", id, 0)
                /\ notes' = Append(notes, [consultation_id |-> id, user_id |-> u])
        /\ UNCHANGED <<pipelineVars, users, requests, consultations, shared, decks, exports, now>>

\* generate_mckinsey_deck: the deck of the consultation's query, a
\* DeckGeneration row and the file; an exception redirects (deck_generator is
\* a McKinseyDeckGenerator, which has no generate_fully_dynamic_deck: with that
\* object the call always raises)
GenerateMckinseyDeck ==
    \E u \in DOMAIN users, id \in 1..(Len(consultations) + 1), raised \in BOOLEAN :
        /\ Rows < MaxRows
        /\ IF ~Known(id)
           THEN response' = Response("generate_mckinsey_deck", u, "404", id, 0)
                /\ decks' = decks
           ELSE IF access_denied(consultations[id], u)
           THEN response' = Response("generate_mckinsey_deck", u, "redirect dashboard", id, 0)
                /\ decks' = decks
           ELSE IF raised
           THEN response' = Response("generate_mckinsey_deck", u,
                                     "redirect consultation_detail", id, 0)
                /\ decks' = decks
           ELSE response' = Response("generate_mckinsey_deck", u, "200", id, id)
                /\ decks' = Append(decks, [consultation_id |-> id, user_id |-> u])
        /\ UNCHANGED <<pipelineVars, users, requests, consultations, notes, shared, exports, now>>

\* the test left out
share_expired_never(sc, t) == FALSE
\* sc.expires_at and datetime.utcnow() > sc.expires_at
share_expired(sc, t) == sc.expires_at.set /\ t > sc.expires_at.at

\* shared_consultation, the public route: the first row with the token
SharedConsultationAccess ==
    \E token \in 1..(Len(shared) + 1) :
        /\ LET rows == SelectSeq(shared, LAMBDA sc : sc.access_token = token)
           IN  response' =
                 IF rows = <<>> THEN Response("shared_consultation", "", "404", token, 0)
                 ELSE IF share_expired(rows[1], now)
                 THEN Response("shared_consultation", "", "410", token, 0)
                 ELSE Response("shared_consultation", "", "200", token,
                               rows[1].consultation_id)
        /\ UNCHANGED <<pipelineVars, users, requests, consultations, notes, shared, decks,
                       exports, now>>

\* two registered users, one of whom has made one consultation
InitAccess ==
    /\ gen = "app"
    /\ pc = "serving"
    /\ down = {}
    /\ budget = 0
    /\ analysis = EmptyDict
    /\ structure = EmptyDict
    /\ Fresh
    /\ \E owner \in UserIds :
         /\ users = [u \in UserIds |->
                       IF u = owner THEN [NewUser EXCEPT !.consultations_count = 1]
                       ELSE NewUser]
         /\ consultations = <<[user_id |-> owner, report_generated |-> FALSE]>>
         /\ response = Response("consult", owner, "redirect consultation_detail", 1, 0)
    /\ requests = <<>>
    /\ notes = <<>>
    /\ shared = <<>>
    /\ decks = <<>>
    /\ exports = <<>>
    /\ now = 0

\* the login-protected routes of a consultation
NextAccess ==
    \/ ReadRoute
    \/ GenerateReport
    \/ ExportConsultation
    \/ ShareConsultation
    \/ AddConsultationNote
    \/ GenerateMckinseyDeck

SpecAccess == InitAccess /\ [][NextAccess]_vars

\* sharing, the public link and the clock
NextShare ==
    \/ ShareConsultation
    \/ SharedConsultationAccess
    \/ Tick

SpecShare == InitAccess /\ [][NextShare]_vars

\* C28: a login-protected route of a consultation returns the consultation's
\* content or changes the consultation and its related rows only for the user
\* whose id is consultation.user_id: any other logged-in user is shown nothing
\* and the tables are left as they were.
C28_OnlyOwnerReadsOrChanges ==
    /\ []((response.shown # 0 /\ response.user # "") =>
             consultations[response.shown].user_id = response.user)
    /\ [][(/\ response'.route \in DOMAIN ReadRoutes
                 \cup {"generate_report", "export_consultation", "share_consultation",
                       "add_consultation_note", "generate_mckinsey_deck"}
           /\ Known(response'.asked)
           /\ consultations[response'.asked].user_id # response'.user)
          => /\ response'.shown = 0
             /\ UNCHANGED <<consultations, notes, shared, decks, exports>>]_vars

\* the owner has added a note, then the other user asked to add one and was refused
C28_Witness ==
    /\ gen = "app"
    /\ response.route = "add_consultation_note"
    /\ response.status = "403"
    /\ consultations[response.asked].user_id # response.user
    /\ Len(notes) = 1
    /\ notes[1].user_id = consultations[1].user_id

\* C29: the public share route renders a consultation only for a token of an
\* existing SharedConsultation row whose expires_at is unset or not earlier
\* than the current time; an unknown token gets 404 and a token past its
\* expiry gets 410, after any sequence of share and access operations.
C29_ShareLinkValidUntilExpiry ==
    [][(response'.route = "shared_consultation" /\ response' # response) =>
          LET rows == SelectSeq(shared, LAMBDA sc : sc.access_token = response'.asked)
          IN  /\ rows = <<>> => (response'.status = "404" /\ response'.shown = 0)
              /\ (rows # <<>> /\ rows[1].expires_at.set /\ rows[1].expires_at.at < now)
                    => (response'.status = "410" /\ response'.shown = 0)
              /\ response'.shown # 0 =>
                    \E j \in DOMAIN shared :
                        /\ shared[j].access_token = response'.asked
                        /\ shared[j].consultation_id = response'.shown
                        /\ ~shared[j].expires_at.set \/ shared[j].expires_at.at >= now]_vars

\* two links were made at different times; the older one, past its expiry, was
\* asked for and refused while the newer one is still valid
C29_Witness ==
    /\ gen = "app"
    /\ response.route = "shared_consultation"
    /\ response.status = "410"
    /\ Len(shared) = 2
    /\ shared[response.asked].expires_at.at < now
    /\ \E j \in DOMAIN shared : shared[j].expires_at.at >= now

====
